---- MODULE Spec2Model ----
(***************************************************************************)
(* A model of the manga aggregation pipeline of solo-toon:                 *)
(*   - LRUCache (lib/manga/dedupe.ts), the bounded recency cache;          *)
(*   - dedupeAndMerge (lib/manga/dedupe.ts), the merge engine;             *)
(*   - fetchJson and its RateLimiter (lib/manga/http.ts), the transport;   *)
(*   - ConsumetProvider.search and the registry (lib/manga/providers);     *)
(*   - searchMangaMulti and clearCache (lib/manga/api.ts).                 *)
(*                                                                         *)
(* Three specifications share the variables:                               *)
(*   SpecLRU   one LRUCache instance under get / set / clear;              *)
(*   Spec      the orchestrator: a sequence of searchMangaMulti requests   *)
(*             over the search cache, each provider call settling in one   *)
(*             step with one of the outcomes fetchJson can end with;       *)
(*   FairSpec  one searchMangaMulti request with every provider call       *)
(*             stepping through fetchJson (throttle, fetch, retry, body),  *)
(*             under the fairness of the JavaScript event loop.            *)
(*                                                                         *)
(* JavaScript runs each continuation between two awaits to completion, so  *)
(* an action is one such continuation.                                     *)
(***************************************************************************)
EXTENDS Integers, Sequences, FiniteSets, TLC

VARIABLES
    \* ---- SpecLRU: one LRUCache instance
    lru,          \* this.cache: the Map, as the sequence of its entries in insertion order
    lruCap,       \* this.maxSize
    lruClock,     \* history: number of get/set operations so far
    lruTouch,     \* history: per key, the clock of its last touch (0: not present)
    lruOp,        \* history: the last operation and what the cache held before it
    \* ---- Spec / FairSpec: the orchestrator
    searchCache,  \* api.ts searchCache: the Map of an LRUCache(50)
    phase,        \* "idle" | "fanout" | "responded"
    req,          \* the request in progress
    target,       \* targetProviders, in selection order
    calls,        \* per position of target: the provider call (searchPromises)
    response,     \* the response handed to the caller
    budget,       \* requests still to be issued
    hist,         \* history of the request in progress
    tz,           \* the time zone of the process: "utc" or "west" of it
    stored,       \* history: cache key -> the request and response a miss stored
                  \* under it since the last clear
    \* ---- FairSpec: the transport
    buckets,      \* RateLimiter.buckets: host -> bucket
    \* ---- SpecConc: concurrent requests over the three caches
    detailsCache, \* api.ts detailsCache: the Map of an LRUCache(100)
    chaptersCache,\* api.ts chaptersCache: the Map of an LRUCache(100)
    tasks,        \* the requests started so far, each at its await or done
    recency,      \* history: per cache, a clock and per key the clock of its last touch
    \* ---- SpecRate: callers of RateLimiter.throttle in time
    now,          \* Date.now(), in refill intervals
    throttles,    \* history: the throttle calls: host, time of call, time of admission
    rateOp,       \* history: the throttle step just taken and the buckets before it
    \* ---- SpecMerge, SpecJW: one application of a function
    input,        \* the arguments
    output        \* the progress and the result

lruVars == <<lru, lruCap, lruClock, lruTouch, lruOp>>
orchVars == <<searchCache, phase, req, target, calls, response, budget, hist, tz, stored>>
netVars == <<buckets>>
concVars == <<detailsCache, chaptersCache, tasks, recency>>
rateVars == <<now, throttles, rateOp>>
pureVars == <<input, output>>
extVars == <<concVars, rateVars, pureVars>>
vars == <<lruVars, orchVars, netVars, extVars>>

\* JavaScript's undefined, one per type of value it stands in for: an absent
\* key or operation, string, number, list of strings, Map value.
Undefined == "undefined"
NoStr == <<"undefined">>
NoNum == -1
NaN == -2
NoList == <<NoStr>>
NoValue == [undefined |-> TRUE]

Min(a, b) == IF a <= b THEN a ELSE b
Max(a, b) == IF a >= b THEN a ELSE b

Range(s) == {s[i] : i \in 1..Len(s)}

(***************************************************************************)
(* JavaScript Map, as the sequence of its entries in insertion order.      *)
(***************************************************************************)
MapKeys(m) == {m[i].key : i \in 1..Len(m)}

MapHas(m, k) == k \in MapKeys(m)

MapGet(m, k) ==
    IF MapHas(m, k) THEN (CHOOSE e \in Range(m) : e.key = k).value ELSE NoValue

MapDelete(m, k) == SelectSeq(m, LAMBDA e : e.key # k)

\* Map.prototype.set: a present key keeps its place, a new key goes last.
MapSet(m, k, v) ==
    IF MapHas(m, k)
    THEN [i \in 1..Len(m) |-> IF m[i].key = k THEN [key |-> k, value |-> v] ELSE m[i]]
    ELSE Append(m, [key |-> k, value |-> v])

\* this.cache.delete(this.cache.keys().next().value): no key, nothing deleted
MapDeleteFirst(m) == IF Len(m) = 0 THEN m ELSE MapDelete(m, m[1].key)

(***************************************************************************)
(* LRUCache                                                                *)
(***************************************************************************)
\* LRUCache.get: the value, and the map with the entry moved to the end.
LRUGetValue(m, k) == MapGet(m, k)

LRUGetMap_NoPromote(m, k) == m

LRUGetMap(m, k) ==
    LET value == MapGet(m, k)
    IN  IF value # NoValue THEN MapSet(MapDelete(m, k), k, value) ELSE m

LRUSet_KeepsPlace(m, maxSize, k, v) ==
    IF MapHas(m, k) THEN MapSet(m, k, v)
    ELSE IF Len(m) >= maxSize THEN MapSet(MapDeleteFirst(m), k, v)
    ELSE MapSet(m, k, v)

LRUSet_NoEvict(m, maxSize, k, v) == MapSet(MapDelete(m, k), k, v)

\* LRUCache.set
LRUSet(m, maxSize, k, v) ==
    IF MapHas(m, k) THEN MapSet(MapDelete(m, k), k, v)
    ELSE IF Len(m) >= maxSize THEN MapSet(MapDeleteFirst(m), k, v)
    ELSE MapSet(m, k, v)

\* LRUCache.clear
\* A clear that leaves the entries in place
LRUClear_KeepsEntries(m) == m

LRUClear(m) == << >>

\* LRUCache.size
LRUSize(m) == Len(m)

(***************************************************************************)
(* Strings are sequences of one-character strings, so that trim, join,     *)
(* concatenation and character comparison are computed, not assumed.       *)
(***************************************************************************)
Digits == <<"0", "1", "2", "3", "4", "5", "6", "7", "8", "9">>

RECURSIVE NumToStr(_)
\* `${n}` for a non-negative integer
NumToStr(n) ==
    IF n < 10 THEN <<Digits[n + 1]>>
    ELSE NumToStr(n \div 10) \o <<Digits[(n % 10) + 1]>>

RECURSIVE Join(_, _)
\* Array.prototype.join
Join(strs, sep) ==
    IF Len(strs) = 0 THEN << >>
    ELSE IF Len(strs) = 1 THEN strs[1]
    ELSE strs[1] \o sep \o Join(Tail(strs), sep)

UpperCase == {"A", "B", "C", "D", "O", "P"}
LowerOf == [c \in UpperCase |->
              CASE c = "A" -> "a" [] c = "B" -> "b" [] c = "C" -> "c"
                [] c = "D" -> "d" [] c = "O" -> "o" [] c = "P" -> "p"]
WhiteSpace == {" "}
\* Characters outside \w and \s
Punctuation == {"!", "-", ":", ",", "'"}

\* String.prototype.toLowerCase
ToLowerCase(str) == [i \in 1..Len(str) |-> IF str[i] \in UpperCase THEN LowerOf[str[i]] ELSE str[i]]

RECURSIVE TrimStart(_)
TrimStart(str) ==
    IF Len(str) > 0 /\ str[1] \in WhiteSpace THEN TrimStart(Tail(str)) ELSE str

RECURSIVE TrimEnd(_)
TrimEnd(str) ==
    IF Len(str) > 0 /\ str[Len(str)] \in WhiteSpace
    THEN TrimEnd(SubSeq(str, 1, Len(str) - 1)) ELSE str

\* String.prototype.trim
Trim(str) == TrimEnd(TrimStart(str))

RECURSIVE CollapseSpaces(_)
\* replace(/\s+/g, ' ')
CollapseSpaces(str) ==
    IF Len(str) = 0 THEN << >>
    ELSE IF str[1] \in WhiteSpace
         THEN <<" ">> \o CollapseSpaces(TrimStart(str))
         ELSE <<str[1]>> \o CollapseSpaces(Tail(str))

\* JavaScript truthiness of an optional string and of an optional number
TruthyStr(v) == v # NoStr /\ v # << >>
TruthyNum(v) == v # NoNum /\ v # NaN /\ v # 0

\* An || that takes its left side, supplied or not
OrElseStr_First(a, b) == a

\* a || b
OrElseStr(a, b) == IF TruthyStr(a) THEN a ELSE b
OrElseNum(a, b) == IF TruthyNum(a) THEN a ELSE b

(***************************************************************************)
(* Exact fractions for the similarity scores.                              *)
(***************************************************************************)
RECURSIVE GCD(_, _)
GCD(a, b) == IF b = 0 THEN a ELSE GCD(b, a % b)

Rat(n, d) == LET g == GCD(n, d) IN [n |-> n \div g, d |-> d \div g]
RatZero == [n |-> 0, d |-> 1]
RatOne == [n |-> 1, d |-> 1]
RatLe(a, b) == a.n * b.d <= b.n * a.d
RatLt(a, b) == a.n * b.d < b.n * a.d
RatAdd(a, b) == Rat(a.n * b.d + b.n * a.d, a.d * b.d)
RatMul(a, b) == Rat(a.n * b.n, a.d * b.d)
RatMax(a, b) == IF RatLe(a, b) THEN b ELSE a
RatMin(a, b) == IF RatLe(a, b) THEN a ELSE b

(***************************************************************************)
(* dedupe.ts: the similarity and merge engine                              *)
(***************************************************************************)
\* normalizeTitle
normalizeTitle(title) ==
    Trim(CollapseSpaces(SelectSeq(ToLowerCase(title), LAMBDA c : c \notin Punctuation)))

RECURSIVE JWMatches(_, _, _, _, _, _)
\* The "find matches" loop of jaroWinkler from index i on: the matched
\* positions of s1 and of s2.
JWMatches(s1, s2, matchDistance, i, s1Matches, s2Matches) ==
    IF i > Len(s1) THEN [s1 |-> s1Matches, s2 |-> s2Matches]
    ELSE LET start == Max(1, i - matchDistance)
             end == Min(i + matchDistance, Len(s2))
             free == {j \in start..end : j \notin s2Matches /\ s1[i] = s2[j]}
         IN  IF free = {} THEN JWMatches(s1, s2, matchDistance, i + 1, s1Matches, s2Matches)
             ELSE LET j == CHOOSE x \in free : \A y \in free : x <= y
                  IN  JWMatches(s1, s2, matchDistance, i + 1,
                                s1Matches \cup {i}, s2Matches \cup {j})

\* The characters of str at the positions pos, in order
CharsAt(str, pos) ==
    LET idx == SelectSeq([i \in 1..Len(str) |-> i], LAMBDA i : i \in pos)
    IN  [k \in 1..Len(idx) |-> str[idx[k]]]

RECURSIVE CommonPrefix(_, _, _)
CommonPrefix(s1, s2, i) ==
    IF i > Min(Min(Len(s1), Len(s2)), 4) THEN 0
    ELSE IF s1[i] = s2[i] THEN 1 + CommonPrefix(s1, s2, i + 1)
    ELSE 0

\* The "count transpositions" loop: the matched characters of s1 and of s2
\* are compared in order
Transpositions(c1, c2) == Cardinality({k \in 1..Len(c1) : c1[k] # c2[k]})

Jaro_ByFirstLength(len1, len2, matches, transpositions) ==
    Rat(4 * matches * matches + (2 * matches - transpositions) * len1,
        6 * len1 * matches)

\* (matches / len1 + matches / len2 + (matches - transpositions / 2) / matches) / 3
Jaro(len1, len2, matches, transpositions) ==
    Rat(2 * matches * matches * len2 + 2 * matches * matches * len1
          + (2 * matches - transpositions) * len1 * len2,
        6 * len1 * len2 * matches)

\* jaro + 0.1 * prefix * (1 - jaro)
Winkler(jaro, prefix) == Rat(10 * jaro.n + prefix * (jaro.d - jaro.n), 10 * jaro.d)

\* jaroWinkler after its "find matches" loop
JWScore(s1, s2, found) ==
    IF Cardinality(found.s1) = 0 THEN RatZero
    ELSE Winkler(Jaro(Len(s1), Len(s2), Cardinality(found.s1),
                      Transpositions(CharsAt(s1, found.s1), CharsAt(s2, found.s2))),
                 CommonPrefix(s1, s2, 1))

\* jaroWinkler
jaroWinkler(s1, s2) ==
    IF s1 = s2 THEN RatOne
    ELSE IF Len(s1) = 0 \/ Len(s2) = 0 THEN RatZero
    ELSE JWScore(s1, s2,
                 JWMatches(s1, s2, (Max(Len(s1), Len(s2)) \div 2) - 1, 1, {}, {}))

\* A releaseDate string: absent or empty ("none"), unparsable ("invalid"), or a
\* date of a year; jan1 marks the date-only form of 1 January, which is
\* midnight UTC and so falls in the year before in a time zone west of UTC.
NoDate == [kind |-> "none", year |-> 0, jan1 |-> FALSE]
InvalidDate == [kind |-> "invalid", year |-> 0, jan1 |-> FALSE]
DateOf(y) == [kind |-> "date", year |-> y, jan1 |-> FALSE]
Jan1Of(y) == [kind |-> "date", year |-> y, jan1 |-> TRUE]
TruthyDate(releaseDate) == releaseDate.kind # "none"

\* new Date(releaseDate).getFullYear()
getFullYear(releaseDate, zone) ==
    IF releaseDate.kind # "date" THEN NaN
    ELSE IF releaseDate.jan1 /\ zone = "west" THEN releaseDate.year - 1
    ELSE releaseDate.year

threshold_AboveOne == Rat(11, 10)

\* const threshold = 0.85
threshold == Rat(85, 100)

\* authors.map(a => a.name).join(' ').toLowerCase(); authors are the names
AuthorNames(authors) == ToLowerCase(Join(authors, <<" ">>))

\* if (authors1 && authors2) titleSimilarity = max(titleSimilarity, authorSimilarity * 0.8)
AuthorBoost(titleSimilarity, authors1, authors2) ==
    IF TruthyStr(authors1) /\ TruthyStr(authors2)
    THEN RatMax(titleSimilarity, RatMul(jaroWinkler(authors1, authors2), Rat(8, 10)))
    ELSE titleSimilarity

\* "Boost score if authors match"
WithAuthors(titleSimilarity, manga1, manga2) ==
    IF manga1.authors # NoList /\ manga2.authors # NoList
    THEN AuthorBoost(titleSimilarity, AuthorNames(manga1.authors),
                     AuthorNames(manga2.authors))
    ELSE titleSimilarity

\* if (Math.abs(year1 - year2) <= 1) titleSimilarity += 0.1
YearBoost(titleSimilarity, year1, year2) ==
    IF year1 # NaN /\ year2 # NaN /\ year1 - year2 <= 1 /\ year2 - year1 <= 1
    THEN RatAdd(titleSimilarity, Rat(1, 10))
    ELSE titleSimilarity

\* "Consider year if available"
WithYear(titleSimilarity, manga1, manga2, zone) ==
    IF TruthyDate(manga1.releaseDate) /\ TruthyDate(manga2.releaseDate)
    THEN YearBoost(titleSimilarity, getFullYear(manga1.releaseDate, zone),
                   getFullYear(manga2.releaseDate, zone))
    ELSE titleSimilarity

\* calculateSimilarity
calculateSimilarity(manga1, manga2, zone) ==
    RatMin(WithYear(WithAuthors(jaroWinkler(normalizeTitle(manga1.title),
                                            normalizeTitle(manga2.title)),
                                manga1, manga2),
                    manga1, manga2, zone),
           RatOne)

\* getProviderPriority: priorities[provider] || 0
PriorityTable ==
    << [id |-> <<"m","a","n","g","a","d","x">>, priority |-> 100],
       [id |-> <<"c","o","m","i","c","k">>, priority |-> 90],
       [id |-> <<"m","a","n","g","a","s","e","e","1","2","3">>, priority |-> 80],
       [id |-> <<"m","a","n","g","a","k","a","k","a","l","o","t">>, priority |-> 70],
       [id |-> <<"m","a","n","g","a","p","a","r","k">>, priority |-> 60] >>

getProviderPriority(provider) ==
    IF \E i \in 1..Len(PriorityTable) : PriorityTable[i].id = provider
    THEN (CHOOSE e \in Range(PriorityTable) : e.id = provider).priority
    ELSE 0

\* '/placeholder.svg' and 'Unknown', abbreviated
PlaceholderCover == <<"/", "p">>
UnknownStatus == <<"U">>

\* providerResultToManga
providerResultToManga(result, provider, zone) ==
    [id |-> provider \o <<":">> \o result.id,
     title |-> result.title,
     cover |-> OrElseStr(result.image, PlaceholderCover),
     status |-> OrElseStr(result.status, UnknownStatus),
     score |-> result.rating,
     synopsis |-> result.description,
     tags |-> IF result.genres = NoList THEN << >> ELSE result.genres,
     authors |-> IF result.authors = NoList THEN << >> ELSE result.authors,
     year |-> IF TruthyDate(result.releaseDate) THEN getFullYear(result.releaseDate, zone)
              ELSE NoNum,
     provider |-> provider,
     providerId |-> result.id,
     chapters |-> result.chapters,
     volumes |-> result.volumes,
     sources |-> << [provider |-> provider, id |-> result.id,
                     priority |-> getProviderPriority(provider)] >>]

\* The record dedupeAndMerge rebuilds from an accumulated entry to compare with
ExistingAsResult(existing) ==
    [id |-> existing.providerId,
     title |-> existing.title,
     authors |-> existing.authors,
     releaseDate |-> IF TruthyNum(existing.year) THEN Jan1Of(existing.year) ELSE NoDate]

RECURSIVE InsertByPriority(_, _)
\* Insert src into a list sorted by descending priority, after its equals
InsertByPriority(sorted, src) ==
    IF Len(sorted) = 0 THEN <<src>>
    ELSE IF sorted[1].priority >= src.priority
         THEN <<sorted[1]>> \o InsertByPriority(Tail(sorted), src)
         ELSE <<src>> \o sorted

SortSources_AsPushed(sources) == sources

RECURSIVE SortSources(_)
\* sources.sort((a, b) => b.priority - a.priority): a stable sort
SortSources(sources) ==
    IF Len(sources) = 0 THEN << >>
    ELSE InsertByPriority(SortSources(SubSeq(sources, 1, Len(sources) - 1)),
                          sources[Len(sources)])

\* The first entry that reaches the threshold, whatever the later ones reach
BestMatch_FirstHit(sims) ==
    IF \A i \in 1..Len(sims) : RatLt(sims[i], threshold) THEN 0
    ELSE CHOOSE i \in 1..Len(sims) :
             RatLe(threshold, sims[i]) /\ \A j \in 1..(i - 1) : RatLt(sims[j], threshold)

\* The entry the "find potential duplicate" loop ends with, as an index and 0
\* for none, given the similarity of each accumulated entry: the first entry
\* with the highest similarity, if that reaches the threshold.
BestMatch(sims) ==
    LET hits == {i \in 1..Len(sims) :
                    /\ RatLe(threshold, sims[i])
                    /\ RatLt(RatZero, sims[i])
                    /\ \A j \in 1..Len(sims) :
                          \/ RatLt(sims[j], sims[i])
                          \/ (sims[j] = sims[i] /\ i <= j)}
    IN  IF hits = {} THEN 0 ELSE CHOOSE i \in hits : TRUE

FindDuplicate(allManga, result, zone) ==
    BestMatch([i \in 1..Len(allManga) |->
                 calculateSimilarity(result, ExistingAsResult(allManga[i]), zone)])

MergeInto_KeepsRepresentative(duplicate, result, provider) ==
    [duplicate EXCEPT
       !.sources = SortSources(Append(@, [provider |-> provider, id |-> result.id,
                                          priority |-> getProviderPriority(provider)]))]

\* The "merge with existing item" branch of dedupeAndMerge
MergeInto(duplicate, result, provider) ==
    LET newSource == [provider |-> provider, id |-> result.id,
                      priority |-> getProviderPriority(provider)]
        pushed == Append(duplicate.sources, newSource)
        currentPriority == getProviderPriority(duplicate.provider)
        newPriority == getProviderPriority(provider)
        promoted ==
            IF newPriority > currentPriority
            THEN [duplicate EXCEPT
                    !.provider = provider,
                    !.providerId = result.id,
                    !.cover = OrElseStr(result.image, duplicate.cover),
                    !.synopsis = OrElseStr(result.description, duplicate.synopsis),
                    !.score = OrElseNum(result.rating, duplicate.score),
                    !.chapters = OrElseNum(result.chapters, duplicate.chapters),
                    !.volumes = OrElseNum(result.volumes, duplicate.volumes)]
            ELSE duplicate
    IN  [promoted EXCEPT !.sources = SortSources(pushed)]

\* A merge that puts the new record in the place of the duplicate
MergeAt_ReplacesEntry(allManga, d, result, provider, zone) ==
    IF d # 0
    THEN [allManga EXCEPT ![d] = providerResultToManga(result, provider, zone)]
    ELSE Append(allManga, providerResultToManga(result, provider, zone))

\* if (duplicate) { merge } else { allManga.push(manga) }
MergeAt(allManga, d, result, provider, zone) ==
    IF d # 0
    THEN [allManga EXCEPT ![d] = MergeInto(allManga[d], result, provider)]
    ELSE Append(allManga, providerResultToManga(result, provider, zone))

\* One iteration of the inner loop of dedupeAndMerge
MergeRecord(allManga, result, provider, zone) ==
    MergeAt(allManga, FindDuplicate(allManga, result, zone), result, provider, zone)

RECURSIVE MergeGroup(_, _, _, _)
MergeGroup(allManga, data, provider, zone) ==
    IF Len(data) = 0 THEN allManga
    ELSE MergeGroup(MergeRecord(allManga, data[1], provider, zone), Tail(data), provider, zone)

RECURSIVE MergeGroups(_, _, _)
MergeGroups(allManga, results, zone) ==
    IF Len(results) = 0 THEN allManga
    ELSE MergeGroups(MergeGroup(allManga, results[1].data, results[1].provider, zone),
                     Tail(results), zone)

\* dedupeAndMerge
dedupeAndMerge(results, zone) == MergeGroups(<< >>, results, zone)

(***************************************************************************)
(* providers/consumet.ts, providers/registry.ts: the adapters              *)
(***************************************************************************)
mangadex == <<"m","a","n","g","a","d","e","x">>
comick == <<"c","o","m","i","c","k">>
mangasee123 == <<"m","a","n","g","a","s","e","e","1","2","3">>
mangakakalot == <<"m","a","n","g","a","k","a","k","a","l","o","t">>
mangapark == <<"m","a","n","g","a","p","a","r","k">>

en == <<"e","n">>
ja == <<"j","a">>
ko == <<"k","o">>
zh == <<"z","h">>
es == <<"e","s">>
fr == <<"f","r">>
de == <<"d","e">>
ptbr == <<"p","t","-","b","r">>
ru == <<"r","u">>

\* ProviderRegistry.providers, in registration order
Registry ==
    << [id |-> mangadex, languages |-> <<en, ja, ko, zh, es, fr, de, ptbr, ru>>,
        priority |-> 100, supportsPages |-> TRUE],
       [id |-> comick, languages |-> <<en, ja, ko, zh>>,
        priority |-> 90, supportsPages |-> TRUE],
       [id |-> mangasee123, languages |-> <<en>>,
        priority |-> 80, supportsPages |-> TRUE],
       [id |-> mangakakalot, languages |-> <<en>>,
        priority |-> 70, supportsPages |-> TRUE],
       [id |-> mangapark, languages |-> <<en, ja, ko, zh>>,
        priority |-> 60, supportsPages |-> TRUE] >>

\* A registry that holds an adapter for every id
IsRegistered_Any(id) == TRUE

\* ProviderRegistry.getProvider: is the id registered
IsRegistered(id) == \E i \in 1..Len(Registry) : Registry[i].id = id

\* ProviderRegistry.getAllProviders, as ids
getAllProviders == [i \in 1..Len(Registry) |-> Registry[i].id]

\* ProviderRegistry.getProvidersByLanguage, as ids
getProvidersByLanguage(language) ==
    LET supporting == SelectSeq(Registry, LAMBDA p : language \in Range(p.languages))
    IN  [i \in 1..Len(supporting) |-> supporting[i].id]

(***************************************************************************)
(* What the provider servers hold: per provider and result page, the raw   *)
(* items of a search for any query; an item that fails                     *)
(* ProviderSearchResultSchema is marked wellFormed = FALSE.                *)
(***************************************************************************)
Rec(id, title) ==
    [id |-> id, title |-> title, image |-> NoStr, description |-> NoStr,
     status |-> NoStr, chapters |-> NoNum, volumes |-> NoNum, rating |-> NoNum,
     genres |-> NoList, authors |-> NoList, releaseDate |-> NoDate]

Item(rec) == [wellFormed |-> TRUE, rec |-> rec]
BadItem(rec) == [wellFormed |-> FALSE, rec |-> rec]

ServerResults(provider, page) ==
    IF page = 1 THEN
        CASE provider = mangadex ->
               << Item([Rec(<<"d","1">>, <<"a","b">>) EXCEPT
                          !.image = <<"i","d">>, !.authors = << <<"o">> >>,
                          !.rating = 8, !.releaseDate = DateOf(2020)]),
                  Item(Rec(<<"d","2">>, <<"c","d">>)) >>
          [] provider = comick ->
               << Item([Rec(<<"c","1">>, <<"A","b"," ">>) EXCEPT
                          !.image = <<"i","c">>, !.description = <<"s">>,
                          !.releaseDate = Jan1Of(2021)]),
                  BadItem(Rec(<<"c","9">>, NoStr)),
                  Item(Rec(<<"c","2">>, <<"c","d","!">>)) >>
          [] provider = mangapark ->
               << Item(Rec(<<"k","1">>, <<"a","b","c","d">>)) >>
          [] OTHER -> << >>
    ELSE IF page = 2 THEN
        CASE provider = mangadex -> << Item(Rec(<<"d","3">>, <<"b","a">>)) >>
          [] OTHER -> << >>
    ELSE << >>

(***************************************************************************)
(* api.ts: searchMangaMulti                                                *)
(***************************************************************************)
searchCacheMax == 50
DefaultPage == 1
DefaultLimit == 20

\* A lone surrogate, on which encodeURIComponent throws URIError
LoneSurrogate == "\\uD800"

\* The requests issued: query and options (page?, lang?, providers?, limit?)
Request(query, page, lang, providers, limit) ==
    [query |-> query, page |-> page, lang |-> lang, providers |-> providers,
     limit |-> limit]
NoRequest == Request(NoStr, NoNum, NoStr, NoList, NoNum)

QueryOne == <<"o","n","e">>

Requests ==
    { Request(QueryOne, NoNum, NoStr, <<mangadex, comick>>, NoNum),
      Request(QueryOne, NoNum, NoStr, <<mangadex, comick>>, 1),
      Request(QueryOne, NoNum, NoStr, <<comick, mangadex>>, NoNum),
      Request(QueryOne, 2, NoStr, <<mangadex, comick>>, NoNum),
      Request(QueryOne, NoNum, es, NoList, NoNum),
      Request(QueryOne, NoNum, NoStr, << <<"x">>, comick >>, NoNum),
      Request(<<LoneSurrogate>>, NoNum, NoStr, <<comick>>, NoNum),
      Request(<<" ">>, NoNum, NoStr, NoList, NoNum),
      Request(<< >>, 2, en, <<mangadex>>, 1),
      Request(<< >>, NoNum, NoStr, NoList, NoNum),
      Request(NoStr, 2, NoStr, <<comick>>, NoNum) }

\* const { page = 1, lang, providers, limit = 20 } = opts
PageOf(r) == IF r.page = NoNum THEN DefaultPage ELSE r.page
LimitOf(r) == IF r.limit = NoNum THEN DefaultLimit ELSE r.limit

IsBlank_EmptyOnly(query) == query = NoStr \/ query = << >>

\* !query?.trim()
IsBlank(query) == query = NoStr \/ Trim(query) = << >>

\* `${query}:${page}:${lang || 'all'}:${providers?.join(',') || 'all'}`
CacheKey(r) ==
    r.query \o <<":">> \o NumToStr(PageOf(r)) \o <<":">>
      \o OrElseStr(r.lang, <<"a","l","l">>) \o <<":">>
      \o OrElseStr(IF r.providers = NoList THEN NoStr ELSE Join(r.providers, <<",">>),
                   <<"a","l","l">>)

\* targetProviders, as ids
TargetProviders(r) ==
    IF r.providers # NoList /\ Len(r.providers) > 0
    THEN SelectSeq(r.providers, IsRegistered)
    ELSE IF TruthyStr(r.lang) THEN getProvidersByLanguage(r.lang)
    ELSE getAllProviders

Ceil_Floor(a, b) == a \div b

\* Math.ceil(a / b) for a >= 0 and b > 0
Ceil(a, b) == (a + b - 1) \div b

\* array.slice(startIndex, endIndex) with 0 <= startIndex <= endIndex
Slice(arr, startIndex, endIndex) ==
    SubSeq(arr, Min(startIndex, Len(arr)) + 1, Min(endIndex, Len(arr)))

NoResponse == [undefined |-> TRUE]

\* The response returned for a blank query
EmptyResponse(page, limit) ==
    [data |-> << >>,
     pagination |-> [current_page |-> page, has_next_page |-> FALSE,
                     last_visible_page |-> page,
                     items |-> [count |-> 0, total |-> 0, per_page |-> limit]]]

\* "Paginate results": the response built from the deduplicated list
Paginate(deduplicatedManga, page, limit) ==
    LET startIndex == (page - 1) * limit
        endIndex == startIndex + limit
        paginatedData == Slice(deduplicatedManga, startIndex, endIndex)
    IN  [data |-> paginatedData,
         pagination |-> [current_page |-> page,
                         has_next_page |-> endIndex < Len(deduplicatedManga),
                         last_visible_page |-> Ceil(Len(deduplicatedManga), limit),
                         items |-> [count |-> Len(paginatedData),
                                    total |-> Len(deduplicatedManga),
                                    per_page |-> limit]]]

(***************************************************************************)
(* SpecLRU: one LRUCache instance, used through get, set and clear.        *)
(***************************************************************************)
LRUKeySet == {"k1", "k2", "k3", "k4"}
LRUValueSet == {[data |-> "v1"], [data |-> "v2"]}
MaxCap == 2
MaxOps == 5

\* The present key whose last touch is the oldest.
OldestKey(m, touch) ==
    IF Len(m) = 0 THEN Undefined
    ELSE CHOOSE k \in MapKeys(m) : \A j \in MapKeys(m) : touch[k] <= touch[j]

OpRecord(kind, k, hit) ==
    [kind |-> kind, key |-> k, hit |-> hit, keysBefore |-> MapKeys(lru),
     oldestBefore |-> OldestKey(lru, lruTouch),
     prevGot |-> IF lruOp.kind = "get" /\ lruOp.hit THEN lruOp.key ELSE Undefined,
     prevOldest |-> lruOp.oldestBefore]

Touched(m, k) ==
    [j \in LRUKeySet |-> IF j = k /\ j \in MapKeys(m) THEN lruClock + 1
                         ELSE IF j \in MapKeys(m) THEN lruTouch[j] ELSE 0]

NoOp == [kind |-> "none", key |-> Undefined, hit |-> FALSE, keysBefore |-> {},
         oldestBefore |-> Undefined, prevGot |-> Undefined, prevOldest |-> Undefined]

LRUIdle ==
    /\ lru = << >>
    /\ lruCap = 1
    /\ lruClock = 0
    /\ lruTouch = [k \in LRUKeySet |-> 0]
    /\ lruOp = NoOp

\* What the current call of searchMangaMulti has done so far: its cache key,
\* whether it returned early, the order in which its searchPromises settled and
\* the list dedupeAndMerge returned.
NoHist == [key |-> NoStr, hit |-> FALSE, blank |-> FALSE, order |-> << >>, merged |-> << >>]

OrchIdle ==
    /\ searchCache = << >>
    /\ phase = "idle"
    /\ req = NoRequest
    /\ target = << >>
    /\ calls = << >>
    /\ response = NoResponse
    /\ hist = NoHist
    /\ stored = << >>

NetIdle == buckets = << >>

\* No request is at an await, and the details and chapters caches are new
ConcIdle ==
    /\ detailsCache = << >>
    /\ chaptersCache = << >>
    /\ tasks = << >>
    /\ recency = << >>

\* No caller of the rate limiter yet
RateIdle ==
    /\ now = 0
    /\ throttles = << >>
    /\ rateOp = << >>

PureIdle ==
    /\ input = << >>
    /\ output = << >>

ExtIdle == ConcIdle /\ RateIdle /\ PureIdle

InitLRU ==
    /\ lru = << >>
    /\ lruCap \in 1..MaxCap
    /\ lruClock = 0
    /\ lruTouch = [k \in LRUKeySet |-> 0]
    /\ lruOp = NoOp
    /\ OrchIdle
    /\ budget = 0
    /\ tz = "utc"
    /\ NetIdle
    /\ ExtIdle

LRUDoGet(k) ==
    /\ lruClock < MaxOps
    /\ lru' = LRUGetMap(lru, k)
    /\ lruClock' = lruClock + 1
    /\ lruTouch' = IF LRUGetValue(lru, k) # NoValue THEN Touched(lru', k)
                   ELSE lruTouch
    /\ lruOp' = OpRecord("get", k, LRUGetValue(lru, k) # NoValue)
    /\ UNCHANGED <<lruCap, orchVars, netVars, extVars>>

LRUDoSet(k, v) ==
    /\ lruClock < MaxOps
    /\ lru' = LRUSet(lru, lruCap, k, v)
    /\ lruClock' = lruClock + 1
    /\ lruTouch' = Touched(lru', k)
    /\ lruOp' = OpRecord("set", k, FALSE)
    /\ UNCHANGED <<lruCap, orchVars, netVars, extVars>>

LRUDoClear ==
    /\ lru' = LRUClear(lru)
    /\ lruTouch' = [k \in LRUKeySet |-> 0]
    /\ lruOp' = OpRecord("clear", Undefined, FALSE)
    /\ UNCHANGED <<lruClock, lruCap, orchVars, netVars, extVars>>

NextLRU ==
    \/ \E k \in LRUKeySet : LRUDoGet(k)
    \/ \E k \in LRUKeySet, v \in LRUValueSet : LRUDoSet(k, v)
    \/ LRUDoClear

SpecLRU == InitLRU /\ [][NextLRU]_vars

\* The keys the last operation removed from the cache.
Evicted == lruOp.keysBefore \ MapKeys(lru)

\* C9: an LRU cache of capacity C >= 1 holds at most C entries and at most one
\* entry per key after any sequence of get, set and clear; a set of a new key on
\* a full cache removes exactly one entry, a set of a present key removes none.
C9_LRUBounded ==
    /\ LRUSize(lru) <= lruCap
    /\ Cardinality(MapKeys(lru)) = Len(lru)
    /\ (lruOp.kind = "set" /\ lruOp.key \notin lruOp.keysBefore
            /\ Cardinality(lruOp.keysBefore) = lruCap)
         => (Cardinality(Evicted) = 1 /\ LRUSize(lru) = lruCap)
    /\ (lruOp.kind = "set" /\ lruOp.key \in lruOp.keysBefore) => Evicted = {}

C9_Witness ==
    /\ lruCap >= 2
    /\ lruOp.kind = "set"
    /\ lruOp.key \notin lruOp.keysBefore
    /\ Cardinality(lruOp.keysBefore) = lruCap
    /\ lruOp.key \in MapKeys(lru)

\* C10 as amended: the entry evicted by a set on a full cache is the key whose
\* last touch (set or successful get) is the oldest, and when the capacity is at
\* least 2 the key of a successful get that immediately precedes the evicting
\* set is not the victim.
C10_EvictsLeastRecentlyTouched ==
    (lruOp.kind = "set" /\ Evicted # {})
      => /\ Evicted = {lruOp.oldestBefore}
         /\ (lruOp.prevGot # Undefined /\ lruCap >= 2) => lruOp.prevGot \notin Evicted

\* A set evicted right after a get of the key that was the oldest before the get.
C10_Witness ==
    /\ lruCap >= 2
    /\ lruOp.kind = "set"
    /\ Evicted # {}
    /\ lruOp.prevGot # Undefined
    /\ lruOp.prevGot = lruOp.prevOldest

\* C10 as stated: for every capacity, the key of a successful get that
\* immediately precedes the evicting set is never the victim.
C10_GetAlwaysProtects ==
    (lruOp.kind = "set" /\ Evicted # {})
      => /\ Evicted = {lruOp.oldestBefore}
         /\ lruOp.prevGot # Undefined => lruOp.prevGot \notin Evicted

(***************************************************************************)
(* Spec: the orchestrator over the search cache                            *)
(***************************************************************************)
\* ConsumetProvider.search: the validated items of a response body
Validate(items) ==
    LET good == SelectSeq(items, LAMBDA it : it.wellFormed)
    IN  [i \in 1..Len(good) |-> good[i].rec]

\* How the fetchJson call of a search can end: with a body holding results,
\* with a body holding none (response.results || []), or with a MangaApiError.
FetchOutcomes == {"ok", "noresults", "HTTP_ERROR", "TIMEOUT", "NETWORK_ERROR"}

\* How provider.search(query, page, lang) can end for the request: thrown out of
\* by encodeURIComponent before its try block, or with one of the above.
SearchOutcomes(r) ==
    IF LoneSurrogate \in Range(r.query) THEN {"throws"} ELSE FetchOutcomes

SearchData_KeepsOnFailure(provider, r, outcome) ==
    Validate(ServerResults(provider, PageOf(r)))

\* The list the searchPromise of the provider is fulfilled with: what search
\* returns (the validated items, [] from its catch block), or [] from the catch
\* block of searchMangaMulti when search throws.
SearchData(provider, r, outcome) ==
    IF outcome = "ok" THEN Validate(ServerResults(provider, PageOf(r))) ELSE << >>

\* The search call of one selected provider: where it stands (pc), the list
\* its searchPromise is fulfilled with, whether provider.search failed, and
\* the network attempts fetchJson has made for it, counted up to MaxAttempts.
NewCall(provider) ==
    [provider |-> provider, pc |-> "start", data |-> << >>, failed |-> FALSE,
     attempts |-> 0]

AllSettled_Any(cs) == \E i \in 1..Len(cs) : cs[i].pc = "settled"

\* await Promise.allSettled(searchPromises)
AllSettled(cs) == \A i \in 1..Len(cs) : cs[i].pc = "settled"

Group(c) == [data |-> c.data, provider |-> c.provider]

SuccessfulResults_InSettleOrder(cs, order) ==
    [i \in 1..Len(order) |-> Group(cs[order[i]])]

\* successfulResults: the values of the fulfilled promises, in the order of
\* searchPromises
SuccessfulResults(cs, order) ==
    LET fulfilled == SelectSeq(cs, LAMBDA c : c.pc = "settled")
    IN  [i \in 1..Len(fulfilled) |-> Group(fulfilled[i])]

StoreResponse_Skip(cache, key, resp) == cache

\* searchCache.set(cacheKey, response)
StoreResponse(cache, key, resp) == LRUSet(cache, searchCacheMax, key, resp)

MaxRequests == 2
TimeZones == {"utc", "west"}

Init ==
    /\ LRUIdle
    /\ OrchIdle
    /\ budget = MaxRequests
    /\ tz \in TimeZones
    /\ NetIdle
    /\ ExtIdle

\* searchMangaMulti up to its await: the blank check, the cache lookup, the
\* provider selection and the start of one search per selected provider;
\* launched is what starting the searches leaves: the calls and the buckets
SearchStartAs(r, launched) ==
    /\ phase = "idle"
    /\ budget > 0
    /\ budget' = budget - 1
    /\ req' = r
    /\ IF IsBlank(r.query)
       THEN /\ response' = EmptyResponse(PageOf(r), LimitOf(r))
            /\ phase' = "responded"
            /\ hist' = [NoHist EXCEPT !.blank = TRUE]
            /\ UNCHANGED <<searchCache, target, calls, buckets>>
       ELSE /\ searchCache' = LRUGetMap(searchCache, CacheKey(r))
            /\ IF LRUGetValue(searchCache, CacheKey(r)) # NoValue
               THEN /\ response' = LRUGetValue(searchCache, CacheKey(r))
                    /\ phase' = "responded"
                    /\ hist' = [NoHist EXCEPT !.key = CacheKey(r), !.hit = TRUE]
                    /\ UNCHANGED <<target, calls, buckets>>
               ELSE /\ target' = TargetProviders(r)
                    /\ calls' = launched.calls
                    /\ buckets' = launched.buckets
                    /\ phase' = "fanout"
                    /\ hist' = [NoHist EXCEPT !.key = CacheKey(r),
                                              !.order = launched.order]
                    /\ UNCHANGED response
    /\ UNCHANGED <<tz, stored, lruVars, extVars>>

\* searchMangaMulti up to its await, with every provider.search left to
\* settle in one later step
SearchStart(r) ==
    SearchStartAs(r, [calls |-> [i \in 1..Len(TargetProviders(r)) |->
                                    NewCall(TargetProviders(r)[i])],
                      buckets |-> buckets, order |-> << >>])

\* The searchPromise of call i is fulfilled: provider.search has returned, or
\* it has thrown and the catch block of searchMangaMulti has returned []
Settle(i, outcome) ==
    /\ calls' = [calls EXCEPT ![i] =
                    [calls[i] EXCEPT !.pc = "settled",
                                     !.data = SearchData(calls[i].provider, req, outcome),
                                     !.failed = outcome \notin {"ok", "noresults"}]]
    /\ hist' = [hist EXCEPT !.order = Append(@, i)]
    /\ UNCHANGED <<searchCache, phase, req, target, response, budget, tz, stored,
                   lruVars, extVars>>

\* One provider.search runs from its call to its end
SearchSettle(i, outcome) ==
    /\ phase = "fanout"
    /\ calls[i].pc = "start"
    /\ outcome \in SearchOutcomes(req)
    /\ Settle(i, outcome)
    /\ UNCHANGED netVars

\* The end of searchMangaMulti: the response is stored and returned
Deliver(deduplicatedManga, resp) ==
    /\ searchCache' = StoreResponse(searchCache, hist.key, resp)
    /\ response' = resp
    /\ hist' = [hist EXCEPT !.merged = deduplicatedManga]
    /\ stored' = MapSet(stored, hist.key, [req |-> req, response |-> resp])

\* "Paginate results"
Respond(deduplicatedManga) ==
    Deliver(deduplicatedManga, Paginate(deduplicatedManga, PageOf(req), LimitOf(req)))

\* searchMangaMulti after its await: merge, paginate, store, respond
SearchFinish ==
    /\ phase = "fanout"
    /\ AllSettled(calls)
    /\ Respond(dedupeAndMerge(SuccessfulResults(calls, hist.order), tz))
    /\ phase' = "responded"
    /\ UNCHANGED <<req, target, calls, budget, tz, lruVars, netVars, extVars>>

\* The caller has the response; the orchestrator is idle again
Return ==
    /\ phase = "responded"
    /\ phase' = "idle"
    /\ req' = NoRequest
    /\ target' = << >>
    /\ calls' = << >>
    /\ response' = NoResponse
    /\ hist' = NoHist
    /\ UNCHANGED <<searchCache, budget, tz, stored, lruVars, netVars, extVars>>

\* clearCache, as far as the search cache goes
ClearCache ==
    /\ phase \in {"idle", "fanout"}
    /\ searchCache' = LRUClear(searchCache)
    /\ stored' = << >>
    /\ detailsCache' = LRUClear(detailsCache)
    /\ chaptersCache' = LRUClear(chaptersCache)
    /\ UNCHANGED <<phase, req, target, calls, response, budget, hist, tz,
                   lruVars, netVars, tasks, recency, rateVars, pureVars>>

Next ==
    \/ \E r \in Requests : SearchStart(r)
    \/ \E i \in 1..Len(calls), outcome \in FetchOutcomes \cup {"throws"} :
          SearchSettle(i, outcome)
    \/ SearchFinish
    \/ Return
    \/ ClearCache

Spec == Init /\ [][Next]_vars

\* A request that missed the cache has its response
RespondedMiss == phase = "responded" /\ ~hist.hit /\ ~hist.blank

\* A request answered from the cache has its response
RespondedHit == phase = "responded" /\ hist.hit

\* The provider records the merged list stands for: the sources of its entries
MergedSources(allManga) ==
    UNION { { [provider |-> m.sources[k].provider, id |-> m.sources[k].id] :
                k \in 1..Len(m.sources) } : m \in Range(allManga) }

RECURSIVE SumOf(_)
SumOf(numbers) ==
    IF Len(numbers) = 0 THEN 0 ELSE numbers[1] + SumOf(Tail(numbers))

\* The records the succeeding providers returned
ReturnedRecords(cs) ==
    UNION { { [provider |-> cs[i].provider, id |-> cs[i].data[k].id] :
                k \in 1..Len(cs[i].data) } : i \in {j \in 1..Len(cs) : ~cs[j].failed} }

\* C3: a searchMulti with a non-blank query that misses the cache returns a
\* response object whatever subset of the selected providers throws or fails;
\* the failing providers contribute no record, and every record a succeeding
\* provider returned is a source of an entry of the merged result.
C3_ProviderFailuresContributeNothing ==
    RespondedMiss =>
        /\ response # NoResponse
        /\ response.pagination.items.total = Len(hist.merged)
        /\ \A i \in 1..Len(calls) :
              calls[i].failed =>
                  \A s \in MergedSources(hist.merged) : s.provider # calls[i].provider
        /\ MergedSources(hist.merged) = ReturnedRecords(calls)
        /\ SumOf([k \in 1..Len(hist.merged) |-> Len(hist.merged[k].sources)])
              = SumOf([i \in 1..Len(calls) |-> Len(calls[i].data)])

\* One provider failed, the other returned records, and the response has them.
C3_Witness ==
    /\ RespondedMiss
    /\ \E i, j \in 1..Len(calls) :
          /\ calls[i].failed
          /\ ~calls[j].failed
          /\ Len(calls[j].data) >= 2
    /\ Len(response.data) >= 2

\* C4: in a searchMulti that misses the cache, nothing of the merge, the
\* pagination, the cache store or the response has happened while the search
\* call of a selected provider is still to settle, and when they have happened
\* every selected provider has a settled call.
C4_MergeAfterAllSettled ==
    /\ (phase = "fanout" /\ \E i \in 1..Len(calls) : calls[i].pc # "settled")
          => /\ response = NoResponse
             /\ hist.merged = << >>
             /\ ~MapHas(searchCache, hist.key)
    /\ RespondedMiss
          => /\ Len(calls) = Len(target)
             /\ \A i \in 1..Len(calls) :
                   calls[i].pc = "settled" /\ calls[i].provider = target[i]
             /\ Len(hist.order) = Len(calls)

\* Two providers were selected and the second settled first.
C4_Witness ==
    /\ RespondedMiss
    /\ hist.order = <<2, 1>>
    /\ Len(hist.merged) >= 2

\* The groups of the settled calls in provider-selection order
SelectionOrderGroups ==
    [i \in 1..Len(target) |-> [data |-> calls[i].data, provider |-> target[i]]]

\* The groups of the settled calls in completion order
CompletionOrderGroups ==
    [k \in 1..Len(hist.order) |->
        [data |-> calls[hist.order[k]].data, provider |-> target[hist.order[k]]]]

\* C5: the response of a searchMulti that misses the cache is a function of the
\* request and of the list each provider returned, whatever the order in which
\* the calls completed: it is the page of the groups merged in
\* provider-selection order.
C5_ResponseIndependentOfCompletionOrder ==
    RespondedMiss =>
        /\ hist.merged = dedupeAndMerge(SelectionOrderGroups, tz)
        /\ response = Paginate(dedupeAndMerge(SelectionOrderGroups, tz),
                               PageOf(req), LimitOf(req))

\* The calls completed in the reverse of the selection order, and merging in
\* completion order would have given another list.
C5_Witness ==
    /\ RespondedMiss
    /\ hist.order = <<2, 1>>
    /\ dedupeAndMerge(CompletionOrderGroups, tz) # hist.merged

\* The provider subset of a request, NoList standing for "not given"
ProviderSet(r) == IF r.providers = NoList THEN {NoStr} ELSE Range(r.providers)

\* The two requests agree on every parameter that affects the result
SameParameters(r1, r2) ==
    /\ r1.query = r2.query
    /\ PageOf(r1) = PageOf(r2)
    /\ r1.lang = r2.lang
    /\ (r1.providers = NoList) = (r2.providers = NoList)
    /\ ProviderSet(r1) = ProviderSet(r2)
    /\ LimitOf(r1) = LimitOf(r2)

\* C6: a request is answered from the cache only with the response stored by
\* a request with the same query, page, language, provider subset and limit.
C6_HitOnlyForSameParameters ==
    RespondedHit => SameParameters(MapGet(stored, hist.key).req, req)

\* C7: while the entry of a request with the same query, page, language and
\* limit and the same set of provider ids is in the cache, a request does not
\* miss the cache.
C7_SameProviderSetHits ==
    phase = "fanout" =>
        \A k \in 1..Len(stored) : ~SameParameters(stored[k].value.req, req)

\* C8: a non-blank searchMulti answered from the cache calls no provider and
\* returns the stored response unchanged; one that misses stores its paginated
\* response under its key before returning it; and no provider is called for
\* a request while the response of an identical request is in the cache.
C8_CacheProtocol ==
    /\ RespondedHit
          => /\ calls = << >>
             /\ target = << >>
             /\ response = MapGet(stored, hist.key).response
             /\ response = LRUGetValue(searchCache, hist.key)
    /\ RespondedMiss
          => /\ LRUGetValue(searchCache, hist.key) = response
             /\ response = Paginate(hist.merged, PageOf(req), LimitOf(req))
    /\ phase = "fanout"
          => \A k \in 1..Len(stored) : stored[k].value.req # req
    /\ MapKeys(stored) = MapKeys(searchCache)

\* A request was answered from the cache with a non-empty page stored earlier.
C8_Witness ==
    /\ RespondedHit
    /\ Len(response.data) >= 2
    /\ MapGet(stored, hist.key).req = req

\* The query is empty, missing or whitespace only
BlankQuery(query) == query = NoStr \/ \A i \in 1..Len(query) : query[i] \in WhiteSpace

\* The search cache is neither read nor written, and nothing is started
NoLookupNoCall ==
    /\ searchCache' = searchCache
    /\ calls' = << >>
    /\ target' = << >>
    /\ buckets' = buckets
    /\ stored' = stored
    /\ hist'.key = NoStr
    /\ ~hist'.hit
    /\ hist'.order = << >>

\* C21: a searchMulti with a blank query (empty, missing or whitespace only)
\* returns at once data [], count 0, total 0 and has_next_page false, with the
\* page and page size of the request, calls no provider and neither reads nor
\* writes the search cache; searchMulti("", {}) returns current_page 1,
\* last_visible_page 1, per_page 20.
C21_BlankQueryShortCircuits ==
    [][\A r \in Requests :
          (phase = "idle" /\ phase' # "idle" /\ req' = r /\ BlankQuery(r.query)) =>
            /\ phase' = "responded"
            /\ response'.data = << >>
            /\ response'.pagination.items.count = 0
            /\ response'.pagination.items.total = 0
            /\ response'.pagination.has_next_page = FALSE
            /\ response'.pagination.current_page = (IF r.page = NoNum THEN 1 ELSE r.page)
            /\ response'.pagination.items.per_page = (IF r.limit = NoNum THEN 20 ELSE r.limit)
            /\ NoLookupNoCall
            /\ r = Request(<< >>, NoNum, NoStr, NoList, NoNum) =>
                 response'.pagination =
                   [current_page |-> 1, has_next_page |-> FALSE, last_visible_page |-> 1,
                    items |-> [count |-> 0, total |-> 0, per_page |-> 20]]]_vars

\* searchMulti("", {}) has returned its empty response while the cache holds
\* the response of an earlier search
C21_Witness ==
    /\ phase = "responded"
    /\ req = Request(<< >>, NoNum, NoStr, NoList, NoNum)
    /\ response.data = << >>
    /\ Len(searchCache) > 0

(***************************************************************************)
(* http.ts: the rate limiter and fetchJson, and FairSpec                   *)
(*                                                                         *)
(* Time is counted in refill intervals (refillRate / maxTokens ms), per    *)
(* bucket and since its lastRefill, up to the maxTokens intervals after    *)
(* which a bucket is full whatever it held.  A timer of the program fires  *)
(* at some later point, and the model leaves open at which.                *)
(***************************************************************************)
maxTokens == 3
refillRate == 3000

\* new URL(url).hostname: every provider URL starts with CONSUMET_BASE_URL
Host == "apiconsumetorg-kappa.vercel.app"

RefillInterval == refillRate \div maxTokens

\* Network attempts of one call are counted up to here
MaxAttempts == 3

\* bucket = { tokens: this.maxTokens, lastRefill: now }
NewBucket == [tokens |-> maxTokens, elapsed |-> 0]

\* "Refill tokens based on time passed", and bucket.lastRefill = now
Refilled(bucket) ==
    [tokens |-> Min(maxTokens,
                    bucket.tokens
                      + (bucket.elapsed * RefillInterval) \div (refillRate \div maxTokens)),
     elapsed |-> 0]

ThrottleWith_NoConsume(bs, hostname, bucket) ==
    [buckets |-> MapSet(bs, hostname, bucket), waits |-> bucket.tokens < 1]

\* RateLimiter.throttle from the refill to its await or, if it does not wait,
\* to its end
ThrottleWith(bs, hostname, bucket) ==
    IF bucket.tokens < 1
    THEN [buckets |-> MapSet(bs, hostname, bucket), waits |-> TRUE]
    ELSE [buckets |-> MapSet(bs, hostname, [bucket EXCEPT !.tokens = @ - 1]),
          waits |-> FALSE]

Throttle_SharedBucket(bs, hostname) ==
    ThrottleWith(bs, Host,
                 Refilled(IF MapHas(bs, Host) THEN MapGet(bs, Host) ELSE NewBucket))

\* RateLimiter.throttle up to its await or, if it does not wait, to its end
Throttle(bs, hostname) ==
    ThrottleWith(bs, hostname,
                 Refilled(IF MapHas(bs, hostname) THEN MapGet(bs, hostname)
                          ELSE NewBucket))

\* fetchJson from the return of throttle on: it waits, or it calls fetch
FetchEnterWith(c, throttled) ==
    [call |-> IF throttled.waits THEN [c EXCEPT !.pc = "throttled"]
              ELSE [c EXCEPT !.pc = "fetching",
                             !.attempts = Min(@ + 1, MaxAttempts)],
     buckets |-> throttled.buckets]

\* fetchJson up to the first await it waits at
FetchEnter(c, bs) == FetchEnterWith(c, Throttle(bs, Host))

\* provider.search up to the first await it waits at; encodeURIComponent
\* throws on a lone surrogate before fetchJson is called
SearchEnter(c, bs, r) ==
    IF LoneSurrogate \in Range(r.query)
    THEN [call |-> [c EXCEPT !.pc = "settled", !.failed = TRUE], buckets |-> bs]
    ELSE FetchEnter(c, bs)

\* One more search started
Launched(acc, entered) ==
    [calls |-> Append(acc.calls, entered.call),
     buckets |-> entered.buckets,
     order |-> IF entered.call.pc = "settled"
               THEN Append(acc.order, Len(acc.calls) + 1) ELSE acc.order]

RECURSIVE Launch(_, _, _)
\* targetProviders.map(async provider => provider.search(...)): the searches
\* are started one after the other
Launch(providers, r, acc) ==
    IF Len(providers) = 0 THEN acc
    ELSE Launch(Tail(providers), r,
                Launched(acc, SearchEnter(NewCall(providers[1]), acc.buckets, r)))

\* searchMangaMulti up to its await, every fetchJson running to its first wait
SearchBegin(r) ==
    SearchStartAs(r, Launch(TargetProviders(r), r,
                            [calls |-> << >>, buckets |-> buckets, order |-> << >>]))

\* Call i moves on within fetchJson
Advance(i, call) ==
    /\ calls' = [calls EXCEPT ![i] = call]
    /\ UNCHANGED <<searchCache, phase, req, target, response, budget, hist, tz, stored,
                   lruVars, extVars>>

\* The wait of throttle is over: bucket.tokens = 1, bucket.tokens -= 1, and
\* fetchJson calls fetch
ThrottleResume(i) ==
    /\ i \in DOMAIN calls
    /\ calls[i].pc = "throttled"
    /\ buckets' = MapSet(buckets, Host, [MapGet(buckets, Host) EXCEPT !.tokens = 1 - 1])
    /\ Advance(i, [calls[i] EXCEPT !.pc = "fetching",
                                   !.attempts = Min(@ + 1, MaxAttempts)])

\* The status codes the server answers with
Statuses == {200, 404, 429, 503}

\* fetch resolves with a response: fetchJson goes on to read the body, waits
\* to call itself again, or throws HTTP_ERROR
FetchRespond(i, status) ==
    /\ i \in DOMAIN calls
    /\ calls[i].pc = "fetching"
    /\ IF status \in 200..299 THEN Advance(i, [calls[i] EXCEPT !.pc = "body"])
       ELSE IF status = 429 \/ status = 503
            THEN Advance(i, [calls[i] EXCEPT !.pc = "backoff"])
            ELSE Settle(i, "HTTP_ERROR")
    /\ UNCHANGED netVars

\* The timeout aborts the fetch: fetchJson throws TIMEOUT
FetchAbort(i) ==
    /\ i \in DOMAIN calls
    /\ calls[i].pc = "fetching"
    /\ Settle(i, "TIMEOUT")
    /\ UNCHANGED netVars

\* fetch rejects: fetchJson throws NETWORK_ERROR
FetchFail(i) ==
    /\ i \in DOMAIN calls
    /\ calls[i].pc = "fetching"
    /\ Settle(i, "NETWORK_ERROR")
    /\ UNCHANGED netVars

\* What response.json() and the validation in search make of the body: a
\* result list, no result list, a value search cannot iterate, no JSON at all
Bodies == {"ok", "noresults", "garbage", "unparsable"}

\* response.json() settles and provider.search ends
BodyRead(i, body) ==
    /\ i \in DOMAIN calls
    /\ calls[i].pc = "body"
    /\ Settle(i, body)
    /\ UNCHANGED netVars

\* The delay after a 429 or 503 is over: return fetchJson(url, options)
BackoffDone(i) ==
    /\ i \in DOMAIN calls
    /\ calls[i].pc = "backoff"
    /\ buckets' = FetchEnter(calls[i], buckets).buckets
    /\ Advance(i, FetchEnter(calls[i], buckets).call)

\* One refill interval passes
Tick ==
    /\ \E k \in 1..Len(buckets) : buckets[k].value.elapsed < maxTokens
    /\ buckets' = [k \in 1..Len(buckets) |->
                      [buckets[k] EXCEPT !.value.elapsed = Min(@ + 1, maxTokens)]]
    /\ UNCHANGED <<lruVars, orchVars, extVars>>

\* The requests of FairSpec
FairRequests ==
    { Request(QueryOne, NoNum, NoStr, <<mangadex, comick>>, NoNum),
      Request(QueryOne, NoNum, es, NoList, NoNum),
      Request(<<LoneSurrogate>>, NoNum, NoStr, <<comick>>, NoNum) }

\* One request is issued
FairInit ==
    /\ LRUIdle
    /\ OrchIdle
    /\ budget = 1
    /\ tz = "utc"
    /\ NetIdle
    /\ ExtIdle

\* The promise of fetch settles: the server answers, the timeout aborts the
\* request, or the network fails
FetchSettles(i) ==
    \/ \E status \in Statuses : FetchRespond(i, status)
    \/ FetchAbort(i)
    \/ FetchFail(i)

BodyArrives(i) == \E body \in Bodies : BodyRead(i, body)

FairNext ==
    \/ \E r \in FairRequests : SearchBegin(r)
    \/ \E i \in 1..Len(calls) : ThrottleResume(i)
    \/ \E i \in 1..Len(calls) : FetchSettles(i)
    \/ \E i \in 1..Len(calls) : BodyArrives(i)
    \/ \E i \in 1..Len(calls) : BackoffDone(i)
    \/ Tick
    \/ SearchFinish
    \/ Return

\* The most calls a request of FairSpec starts
MaxFairCalls ==
    CHOOSE n \in 0..Len(Registry) :
        /\ \E r \in FairRequests : Len(TargetProviders(r)) = n
        /\ \A r \in FairRequests : Len(TargetProviders(r)) <= n

\* The next step of call i, whichever it is
CallStep(i) ==
    \/ ThrottleResume(i)
    \/ FetchSettles(i)
    \/ BodyArrives(i)
    \/ BackoffDone(i)

\* The continuation of searchMangaMulti after its await is due, or its caller's
ContinuationDue ==
    \/ phase = "fanout" /\ AllSettled(calls)
    \/ phase = "responded"

\* The event loop runs every timer callback and every continuation that is
\* due; the promise of a fetch settles, by the timeout at the latest; and the
\* body of an answered request is taken to arrive.  Only SearchFinish and
\* Return end a state in which a continuation is due, so the last conjunct is
\* weak fairness of the two.
FairSpec ==
    /\ FairInit
    /\ [][FairNext]_vars
    /\ \A i \in 1..MaxFairCalls : WF_vars(CallStep(i))
    /\ []<>(~ContinuationDue)

\* C1: one fetchJson call makes at most 2 network attempts: a request answered
\* with 429 or 503 is retried once, and a retry answered with 429 or 503 again
\* is not retried.
C1_AtMostTwoAttempts ==
    \A i \in 1..Len(calls) : calls[i].attempts <= 2

\* C2: every searchMulti request that has started its provider calls
\* eventually has its response.
C2_EveryRequestResponds ==
    (phase = "fanout") ~> (phase = "responded")

(***************************************************************************)
(* SpecConc: searchMangaMulti, getMangaDetails and getChapters requests    *)
(* running concurrently.  A request runs without interruption up to its    *)
(* await and again from the await to its return, so each request is two    *)
(* steps: the cache lookup before the provider call, and the cache store   *)
(* after it.  The caches start full.                                       *)
(***************************************************************************)
detailsCacheMax == 100
chaptersCacheMax == 100

Kinds == {"search", "details", "chapters"}

CacheMax(kind) ==
    CASE kind = "search" -> searchCacheMax
      [] kind = "details" -> detailsCacheMax
      [] kind = "chapters" -> chaptersCacheMax

\* `${provider.id}:${result.id}`
GlobalId(provider, n) == provider \o <<":">> \o NumToStr(n)

\* `${globalSeriesId}:${opts.lang || 'all'}:${opts.order || 'asc'}`
ChaptersKey(globalSeriesId, lang, order) ==
    globalSeriesId \o <<":">> \o OrElseStr(lang, <<"a","l","l">>) \o <<":">>
      \o OrElseStr(order, <<"a","s","c">>)

\* The n-th key of each cache: page n of one query, series n of one provider
KeyOf(kind, n) ==
    CASE kind = "search" -> CacheKey(Request(QueryOne, n, NoStr, NoList, NoNum))
      [] kind = "details" -> GlobalId(mangadex, n)
      [] kind = "chapters" -> ChaptersKey(GlobalId(mangadex, n), NoStr, NoStr)

\* What the n-th provider call resolves to, as far as the cache is concerned
Fetched(n) == [data |-> n]

\* A cache that has served requests 1..n in turn, each a miss
Served(kind, n) == [i \in 1..n |-> [key |-> KeyOf(kind, i), value |-> Fetched(i)]]
ServedRecency(kind, n) == [i \in 1..n |-> KeyOf(kind, i)]

MaxTasks == 3
\* The requests that arrive: the oldest cached key, and a key not cached
TaskKeys == {1, 101}

CacheOf(kind) ==
    CASE kind = "search" -> searchCache
      [] kind = "details" -> detailsCache
      [] kind = "chapters" -> chaptersCache

\* The caches after one of them became m
CachesWith(kind, m) ==
    /\ searchCache' = IF kind = "search" THEN m ELSE searchCache
    /\ detailsCache' = IF kind = "details" THEN m ELSE detailsCache
    /\ chaptersCache' = IF kind = "chapters" THEN m ELSE chaptersCache

\* History: key k of a cache was touched (found by get, or written by set);
\* the keys ever touched, the most recently touched last
Touch(kind, k) ==
    recency' = [recency EXCEPT ![kind] = Append(SelectSeq(@, LAMBDA x : x # k), k)]

ConcOrchIdle ==
    /\ phase = "idle"
    /\ req = NoRequest
    /\ target = << >>
    /\ calls = << >>
    /\ response = NoResponse
    /\ budget = 0
    /\ hist = NoHist
    /\ tz = "utc"
    /\ stored = << >>

InitConc ==
    /\ searchCache = Served("search", searchCacheMax)
    /\ detailsCache = Served("details", detailsCacheMax)
    /\ chaptersCache = Served("chapters", chaptersCacheMax)
    /\ recency = [kind \in Kinds |-> ServedRecency(kind, CacheMax(kind))]
    /\ tasks = << >>
    /\ ConcOrchIdle
    /\ LRUIdle
    /\ NetIdle
    /\ RateIdle
    /\ PureIdle

ConcFrame ==
    UNCHANGED <<phase, req, target, calls, response, budget, hist, tz, stored,
                lruVars, netVars, rateVars, pureVars>>

\* A request up to its await: "Check cache first", a hit returns at once
TaskBegin(kind, n) ==
    /\ Len(tasks) < MaxTasks
    /\ LET k == KeyOf(kind, n)
           cached == LRUGetValue(CacheOf(kind), k)
       IN  /\ CachesWith(kind, LRUGetMap(CacheOf(kind), k))
           /\ IF cached # NoValue
              THEN /\ tasks' = Append(tasks, [kind |-> kind, key |-> k, pc |-> "hit",
                                              value |-> cached])
                   /\ Touch(kind, k)
              ELSE /\ tasks' = Append(tasks, [kind |-> kind, key |-> k, pc |-> "await",
                                              value |-> NoValue])
                   /\ UNCHANGED recency
    /\ ConcFrame

\* A request after its await: "Cache the result" and return it
TaskStore(i) ==
    /\ i \in 1..Len(tasks)
    /\ tasks[i].pc = "await"
    /\ CachesWith(tasks[i].kind,
                  LRUSet(CacheOf(tasks[i].kind), CacheMax(tasks[i].kind), tasks[i].key,
                         Fetched(i)))
    /\ Touch(tasks[i].kind, tasks[i].key)
    /\ tasks' = [tasks EXCEPT ![i] = [@ EXCEPT !.pc = "done", !.value = Fetched(i)]]
    /\ ConcFrame

\* The provider call of getMangaDetails rejects: it rethrows and does not
\* write the cache. (The search of an adapter and its chapters call catch
\* their failures and resolve to a list, which TaskStore stores.)
TaskFail(i) ==
    /\ i \in 1..Len(tasks)
    /\ tasks[i].pc = "await"
    /\ tasks[i].kind = "details"
    /\ tasks' = [tasks EXCEPT ![i] = [@ EXCEPT !.pc = "failed"]]
    /\ UNCHANGED <<searchCache, detailsCache, chaptersCache, recency>>
    /\ ConcFrame

\* clearCache, between the steps of the requests
TaskClear ==
    /\ Len(tasks) < MaxTasks
    /\ searchCache' = LRUClear(searchCache)
    /\ detailsCache' = LRUClear(detailsCache)
    /\ chaptersCache' = LRUClear(chaptersCache)
    /\ recency' = [kind \in Kinds |-> << >>]
    /\ tasks' = Append(tasks, [kind |-> "clear", key |-> NoStr, pc |-> "cleared",
                               value |-> NoValue])
    /\ ConcFrame

NextConc ==
    \/ \E kind \in Kinds, n \in TaskKeys : TaskBegin(kind, n)
    \/ \E i \in 1..MaxTasks : TaskStore(i)
    \/ \E i \in 1..MaxTasks : TaskFail(i)
    \/ TaskClear

SpecConc == InitConc /\ [][NextConc]_vars

UniqueKeys(m) == Cardinality(MapKeys(m)) = Len(m)

KeysInOrder(m) == [i \in 1..Len(m) |-> m[i].key]

\* The cache holds the most recently touched keys, as many as fit, in the
\* order of their last touch
InRecencyOrder(kind, m) ==
    /\ Len(m) = Min(CacheMax(kind), Len(recency[kind]))
    /\ KeysInOrder(m) =
          SubSeq(recency[kind], Len(recency[kind]) - Len(m) + 1, Len(recency[kind]))

Entries(m, k) == Cardinality({i \in 1..Len(m) : m[i].key = k})

\* Two requests for the same key that both missed and both stored
BothMissed(i, j) ==
    /\ i # j
    /\ tasks[i].kind = tasks[j].kind
    /\ tasks[i].key = tasks[j].key
    /\ tasks[i].pc = "done"
    /\ tasks[j].pc = "done"

\* C11: under every interleaving of concurrent searchMulti, getDetails and
\* getChapters requests, no cache exceeds its capacity or holds a key twice,
\* each cache holds exactly its most recently touched keys, as many as fit, in
\* the order of their last touch, and two identical requests that both missed leave at most
\* one entry for their key: exactly one as soon as the later of them stored.
C11_CachesAtomicUnderConcurrency ==
    /\ \A kind \in Kinds :
          /\ LRUSize(CacheOf(kind)) <= CacheMax(kind)
          /\ UniqueKeys(CacheOf(kind))
          /\ InRecencyOrder(kind, CacheOf(kind))
    /\ \A i, j \in 1..Len(tasks) :
          BothMissed(i, j) =>
            /\ Entries(CacheOf(tasks[i].kind), tasks[i].key) <= 1
            /\ ( /\ Len(recency[tasks[i].kind]) > 0
                 /\ recency[tasks[i].kind][Len(recency[tasks[i].kind])] = tasks[i].key )
                 => Entries(CacheOf(tasks[i].kind), tasks[i].key) = 1

\* Two identical requests both missed and stored, a third request missed and
\* stored another key of the same cache, and the oldest entries were evicted
C11_Witness ==
    \E i, j \in 1..Len(tasks) :
        /\ BothMissed(i, j)
        /\ Entries(CacheOf(tasks[i].kind), tasks[i].key) = 1
        /\ LRUSize(CacheOf(tasks[i].kind)) = CacheMax(tasks[i].kind)
        /\ ~MapHas(CacheOf(tasks[i].kind), KeyOf(tasks[i].kind, 2))
        /\ \E l \in 1..Len(tasks) :
              /\ tasks[l].kind = tasks[i].kind
              /\ tasks[l].key # tasks[i].key
              /\ tasks[l].pc = "done"

\* The step is a call of clearCache
ClearStep == Len(tasks') = Len(tasks) + 1 /\ tasks'[Len(tasks')].kind = "clear"

\* The step is a request for key n of a cache, up to its await
BeginStep(kind, n) ==
    /\ Len(tasks') = Len(tasks) + 1
    /\ tasks'[Len(tasks')].kind = kind
    /\ tasks'[Len(tasks')].key = KeyOf(kind, n)

\* C27: right after clearCache the search, details and chapters caches all
\* hold zero entries, whatever they held and whatever requests are in
\* flight; a searchMulti, getDetails or getChapters request made while the
\* caches are empty is a miss that goes on to the providers, also for a key
\* that was cached before.
C27_ClearEmptiesAllCaches ==
    [][ /\ ClearStep =>
              \A kind \in Kinds : LRUSize(CacheOf(kind))' = 0
        /\ \A kind \in Kinds, n \in TaskKeys :
              (LRUSize(CacheOf(kind)) = 0 /\ BeginStep(kind, n)) =>
                  /\ tasks'[Len(tasks')].pc = "await"
                  /\ tasks'[Len(tasks')].value = NoValue ]_vars

\* clearCache was called on the full caches, and the request for the key each
\* cache had held longest is then a miss waiting for its provider
C27_Witness ==
    /\ Len(tasks) = 2
    /\ tasks[1].kind = "clear"
    /\ tasks[2].kind = "details"
    /\ tasks[2].key = KeyOf("details", 1)
    /\ tasks[2].pc = "await"
    /\ \A kind \in Kinds : LRUSize(CacheOf(kind)) = 0

(***************************************************************************)
(* SpecRate: callers of fetchJson on two hosts, in time.  The clock counts *)
(* refill intervals, and a timer of throttle fires when it is due: time    *)
(* does not pass a waiter whose wait is over.                              *)
(***************************************************************************)
\* A second hostname
OtherHost == "uploads.mangadex.org"
RateHosts == {Host, OtherHost}

MaxCallers == 6
MaxTime == 2

\* const waitTime = this.refillRate / this.maxTokens, in refill intervals
WaitIntervals == (refillRate \div maxTokens) \div RefillInterval

InitRate ==
    /\ buckets = << >>
    /\ now = 0
    /\ throttles = << >>
    /\ rateOp = << >>
    /\ OrchIdle
    /\ budget = 0
    /\ tz = "utc"
    /\ LRUIdle
    /\ ConcIdle
    /\ PureIdle

RateFrame == UNCHANGED <<lruVars, orchVars, concVars, pureVars>>

\* The call of throttle recorded: when it was made, whether it waits and until
\* when, and when it returned
ThrottleRecord(hostname, throttled) ==
    [host |-> hostname, at |-> now,
     due |-> IF throttled.waits THEN now + WaitIntervals ELSE NoNum,
     admitted |-> IF throttled.waits THEN NoNum ELSE now]

\* fetchJson: hostname = new URL(url).hostname, and throttle(hostname) up to
\* its await or, if it does not wait, to its end
RateCallWith(hostname, throttled) ==
    /\ buckets' = throttled.buckets
    /\ throttles' = Append(throttles, ThrottleRecord(hostname, throttled))
    /\ rateOp' = <<[host |-> hostname, before |-> buckets, call |-> Len(throttles) + 1]>>
    /\ UNCHANGED now
    /\ RateFrame

RateCall(hostname) ==
    /\ Len(throttles) < MaxCallers
    /\ RateCallWith(hostname, Throttle(buckets, hostname))

\* The wait of throttle is over: bucket.tokens = 1, bucket.tokens -= 1
RateResume(i) ==
    /\ i \in 1..Len(throttles)
    /\ throttles[i].admitted = NoNum
    /\ throttles[i].due <= now
    /\ buckets' = MapSet(buckets, throttles[i].host,
                         [MapGet(buckets, throttles[i].host) EXCEPT !.tokens = 1 - 1])
    /\ throttles' = [throttles EXCEPT ![i] = [@ EXCEPT !.admitted = now]]
    /\ rateOp' = <<[host |-> throttles[i].host, before |-> buckets, call |-> i]>>
    /\ UNCHANGED now
    /\ RateFrame

\* One refill interval passes
RateTick ==
    /\ now < MaxTime
    /\ \A i \in 1..Len(throttles) :
          throttles[i].admitted = NoNum => throttles[i].due > now
    /\ now' = now + 1
    /\ buckets' = [k \in 1..Len(buckets) |->
                      [buckets[k] EXCEPT !.value.elapsed = Min(@ + 1, maxTokens)]]
    /\ rateOp' = << >>
    /\ UNCHANGED throttles
    /\ RateFrame

NextRate ==
    \/ \E hostname \in RateHosts : RateCall(hostname)
    \/ \E i \in 1..MaxCallers : RateResume(i)
    \/ RateTick

SpecRate == InitRate /\ [][NextRate]_vars

\* The requests admitted to a host from time t on and before t + length
AdmittedIn(hostname, t, length) ==
    Cardinality({i \in 1..Len(throttles) :
                    /\ throttles[i].host = hostname
                    /\ throttles[i].admitted # NoNum
                    /\ throttles[i].admitted >= t
                    /\ throttles[i].admitted < t + length})

\* C12: under every interleaving of concurrent callers, in any time window of
\* T whole refill intervals (seconds), T >= 1, the rate limiter admits at most
\* maxTokens + T requests to one host.
C12_AdmissionsBoundedByTokens ==
    \A hostname \in RateHosts, t \in 0..MaxTime, length \in 1..(MaxTime + 1) :
        AdmittedIn(hostname, t, length) <= maxTokens + length

\* The rank of call i among the calls to its host
Rank(i) == Cardinality({j \in 1..i : throttles[j].host = throttles[i].host})

\* Call i belongs to a burst on a host not used before: it is made at the
\* instant of the first call to its host
InBurst(i) ==
    \A j \in 1..Len(throttles) :
        throttles[j].host = throttles[i].host => throttles[j].at >= throttles[i].at

\* Call i is call number maxTokens + 1 of a burst
OverBurst(i) == InBurst(i) /\ Rank(i) = maxTokens + 1

\* C13: when maxTokens + 1 = 4 requests are issued at the same instant to a
\* host not used before, the first 3 return from throttle at that instant and
\* the 4th one refill interval later, and a request issued at that instant to
\* another host whose bucket still holds a token is not delayed.
C13_FourthOfBurstWaitsOneInterval ==
    \A i \in 1..Len(throttles) :
        /\ (InBurst(i) /\ Rank(i) <= maxTokens) => throttles[i].admitted = throttles[i].at
        /\ OverBurst(i) =>
             /\ throttles[i].due = throttles[i].at + 1
             /\ throttles[i].admitted \in {NoNum, throttles[i].at + 1}
             /\ throttles[i].admitted = NoNum => now <= throttles[i].at + 1
             /\ \A k \in 1..Len(throttles) :
                   ( /\ throttles[k].host # throttles[i].host
                     /\ throttles[k].at = throttles[i].at
                     /\ Rank(k) <= maxTokens )
                   => throttles[k].admitted = throttles[k].at

\* The 4th request of a burst was admitted one interval late, and a request
\* made after it at the same instant to the other host was admitted at once
C13_Witness ==
    \E i, k \in 1..Len(throttles) :
        /\ OverBurst(i)
        /\ throttles[i].admitted = throttles[i].at + 1
        /\ k > i
        /\ throttles[k].host # throttles[i].host
        /\ throttles[k].at = throttles[i].at
        /\ throttles[k].admitted = throttles[k].at

\* The tokens a host holds for a call, given the buckets
OwnTokens(bs, hostname) ==
    IF MapHas(bs, hostname) THEN Refilled(MapGet(bs, hostname)).tokens ELSE maxTokens

\* C14: a step of throttle for one host leaves the bucket of every other host
\* as it was (present or not, token count, time since refill), and a call
\* waits only if the bucket of its own host holds no token.
C14_ThrottleTouchesOwnBucketOnly ==
    \A k \in 1..Len(rateOp) :
        /\ \A hostname \in RateHosts \ {rateOp[k].host} :
              /\ MapHas(buckets, hostname) = MapHas(rateOp[k].before, hostname)
              /\ MapGet(buckets, hostname) = MapGet(rateOp[k].before, hostname)
        /\ throttles[rateOp[k].call].admitted = NoNum
             => OwnTokens(rateOp[k].before, rateOp[k].host) < 1

\* A call to one host returned at once while the other host's bucket was
\* empty and a caller was waiting on it
C14_Witness ==
    \E k \in 1..Len(rateOp) :
        /\ throttles[rateOp[k].call].admitted = throttles[rateOp[k].call].at
        /\ throttles[rateOp[k].call].at = now
        /\ \E hostname \in RateHosts \ {rateOp[k].host} :
              /\ MapHas(buckets, hostname)
              /\ MapGet(buckets, hostname).tokens = 0
              /\ \E i \in 1..Len(throttles) :
                    throttles[i].host = hostname /\ throttles[i].admitted = NoNum

(***************************************************************************)
(* SpecMerge: dedupeAndMerge, one record of its input per step.  The       *)
(* records arrive in any order from three providers; a batch of the input  *)
(* is a run of records of one provider.                                    *)
(***************************************************************************)
OnePiece == <<"O","n","e"," ","P","i","e","c","e">>
Bleach == <<"B","l","e","a","c","h">>

\* What the providers return: the same series under two spellings, a near
\* duplicate of it, and another series
RecordA ==
    [Rec(<<"1">>, OnePiece) EXCEPT
       !.image = <<"i","1">>, !.description = <<"s","1">>, !.rating = 9,
       !.chapters = 5, !.volumes = 1]
RecordB ==
    [Rec(<<"2">>, OnePiece \o <<" ">>) EXCEPT
       !.image = <<"i","2">>, !.description = <<"s","2">>, !.rating = 8,
       !.chapters = 6, !.volumes = 2]
RecordC == Rec(<<"3">>, Bleach)
RecordD == Rec(<<"4">>, SubSeq(OnePiece, 1, Len(OnePiece) - 1))

Returned(provider, result) == [provider |-> provider, result |-> result]

MergeInputs ==
    { Returned(mangadex, RecordA), Returned(mangadex, RecordC),
      Returned(comick, RecordB), Returned(comick, RecordD), Returned(comick, RecordC),
      Returned(mangasee123, RecordA), Returned(mangasee123, RecordD) }

MaxRecords == 4

InitMerge ==
    /\ input = << >>
    /\ output = [allManga |-> << >>, into |-> << >>]
    /\ LRUIdle
    /\ OrchIdle
    /\ budget = 0
    /\ tz = "utc"
    /\ NetIdle
    /\ ConcIdle
    /\ RateIdle

\* The inner loop body of dedupeAndMerge, the duplicate found being entry d
MergeStepAt(provider, result, d) ==
    /\ input' = Append(input, Returned(provider, result))
    /\ output' = [allManga |-> MergeAt(output.allManga, d, result, provider, tz),
                  into |-> Append(output.into,
                                  IF d # 0 THEN d ELSE Len(output.allManga) + 1)]
    /\ UNCHANGED <<lruVars, orchVars, netVars, concVars, rateVars>>

MergeStep(provider, result) ==
    /\ Len(input) < MaxRecords
    /\ MergeStepAt(provider, result, FindDuplicate(output.allManga, result, tz))

NextMerge == \E in \in MergeInputs : MergeStep(in.provider, in.result)

SpecMerge == InitMerge /\ [][NextMerge]_vars

\* The deduplication priority the adapter of a provider declares
AdapterPriority(provider) ==
    (CHOOSE p \in Range(Registry) : p.id = provider).priority

Priorities(sources) == [i \in 1..Len(sources) |-> sources[i].priority]

\* The entry represents the record a provider returned
Represents(manga, provider, result) ==
    /\ manga.provider = provider
    /\ manga.providerId = result.id
    /\ manga.cover = result.image
    /\ manga.synopsis = result.description
    /\ manga.score = result.rating
    /\ manga.chapters = result.chapters
    /\ manga.volumes = result.volumes

\* The priority-100 provider and the priority-90 provider returned one record
\* each of the same normalized title, in either order
OnePieceTwice ==
    \/ input = <<Returned(mangadex, RecordA), Returned(comick, RecordB)>>
    \/ input = <<Returned(comick, RecordB), Returned(mangadex, RecordA)>>

\* C15: when mangadex (adapter priority 100) and comick (priority 90) return
\* 'One Piece' and 'One Piece ', the merge yields exactly one entry, which
\* represents the mangadex record and whose sources have priorities [100, 90].
C15_HighestPriorityRepresents ==
    OnePieceTwice =>
        /\ Len(output.allManga) = 1
        /\ Represents(output.allManga[1], mangadex, RecordA)
        /\ Priorities(output.allManga[1].sources) = <<100, 90>>

\* C16: the priority the merge engine gives a registered provider, in the
\* table and on every source it records, is the priority the adapter of the
\* provider declares, the first registered provider having the highest and
\* each next one a lower one.
C16_MergePriorityIsAdapterPriority ==
    /\ \A i \in 1..Len(Registry) :
          getProviderPriority(Registry[i].id) = Registry[i].priority
    /\ \A i \in 1..(Len(Registry) - 1) :
          getProviderPriority(Registry[i].id) > getProviderPriority(Registry[i + 1].id)
    /\ \A m \in 1..Len(output.allManga) :
          \A k \in 1..Len(output.allManga[m].sources) :
              output.allManga[m].sources[k].priority
                = AdapterPriority(output.allManga[m].sources[k].provider)

\* C17: after every merge step the sources of every entry are sorted by
\* non-increasing priority.
C17_SourcesSortedByPriority ==
    \A m \in 1..Len(output.allManga) :
        \A k \in 1..(Len(output.allManga[m].sources) - 1) :
            output.allManga[m].sources[k].priority
              >= output.allManga[m].sources[k + 1].priority

\* The source a step merged
SourceOf(in) ==
    [provider |-> in.provider, id |-> in.result.id,
     priority |-> getProviderPriority(in.provider)]

\* The steps whose record went into entry m
StepsInto(m) == {k \in 1..Len(output.into) : output.into[k] = m}

\* An entry of three sources the last of which was merged first
C17_Witness ==
    \E m \in 1..Len(output.allManga) :
        /\ Len(output.allManga[m].sources) = 3
        /\ output.allManga[m].sources[1].priority > output.allManga[m].sources[3].priority
        /\ \E k \in StepsInto(m) :
              /\ \A l \in StepsInto(m) : k <= l
              /\ output.allManga[m].sources[3] = SourceOf(input[k])

\* C18: after every merge step, provider and providerId of every entry are
\* those of the first of its sources, the sources are those of the records
\* merged into the entry, and none has a higher priority than the first.
C18_RepresentativeIsFirstSource ==
    \A m \in 1..Len(output.allManga) :
        /\ output.allManga[m].provider = output.allManga[m].sources[1].provider
        /\ output.allManga[m].providerId = output.allManga[m].sources[1].id
        /\ Len(output.allManga[m].sources) = Cardinality(StepsInto(m))
        /\ \A k \in StepsInto(m) :
              /\ SourceOf(input[k]) \in Range(output.allManga[m].sources)
              /\ SourceOf(input[k]).priority <= output.allManga[m].sources[1].priority

\* An entry was promoted: it is represented by a record merged into it later
C18_Witness ==
    \E m \in 1..Len(output.allManga) :
        /\ output.allManga[m].id
             # output.allManga[m].provider \o <<":">> \o output.allManga[m].providerId
        /\ \E k \in StepsInto(m) :
              /\ \E l \in StepsInto(m) : l < k
              /\ output.allManga[m].provider = input[k].provider
              /\ output.allManga[m].providerId = input[k].result.id
              /\ output.allManga[m].cover = input[k].result.image

\* The input so far is one batch of a single provider
SingleProvider == Len(input) > 0 /\ \A k \in 1..Len(input) : input[k].provider = input[1].provider

\* The records from step a to step b as a batch of the provider of step a
BatchOf(a, b) ==
    [provider |-> input[a].provider, data |-> [k \in 1..(b - a + 1) |-> input[a + k - 1].result]]

\* The number of entries after n steps
CountAfter(n) == Cardinality({output.into[k] : k \in 1..n})

\* The input so far is a batch of n records of one provider, twice
SameBatchTwice(n) ==
    /\ SingleProvider
    /\ Len(input) = 2 * n
    /\ BatchOf(1, n) = BatchOf(n + 1, 2 * n)

\* C19: for every batch B of a single provider, dedupeAndMerge([B, B]) has as
\* many entries as dedupeAndMerge([B]); when the steps so far merged a batch
\* twice, the second copy added no entry.
C19_MergingTwiceKeepsCount ==
    /\ SingleProvider =>
          /\ dedupeAndMerge(<<BatchOf(1, Len(input))>>, tz) = output.allManga
          /\ Len(dedupeAndMerge(<<BatchOf(1, Len(input)), BatchOf(1, Len(input))>>, tz))
               = Len(output.allManga)
    /\ \A n \in 1..MaxRecords :
          SameBatchTwice(n) =>
            /\ Len(output.allManga) = CountAfter(n)
            /\ \A k \in (n + 1)..(2 * n) : output.into[k] <= CountAfter(n)

\* A batch of two records that do not merge with each other was merged twice
C19_Witness ==
    /\ SameBatchTwice(2)
    /\ CountAfter(2) = 2
    /\ Len(output.allManga) = 2
    /\ Len(output.allManga[1].sources) = 2

(***************************************************************************)
(* SpecJW: jaroWinkler applied to a pair of strings, in both orders, and   *)
(* to the first string and itself.                                         *)
(***************************************************************************)
JWAlphabet == {"a", "b", "c"}
MaxLen == 4

JWStrings == UNION {[1..n -> JWAlphabet] : n \in 0..MaxLen}

InitJW ==
    /\ input \in [a : JWStrings, b : JWStrings]
    /\ output = << >>
    /\ LRUIdle
    /\ OrchIdle
    /\ budget = 0
    /\ tz = "utc"
    /\ NetIdle
    /\ ConcIdle
    /\ RateIdle

JWApply ==
    /\ output = << >>
    /\ output' = << [ab |-> jaroWinkler(input.a, input.b),
                     ba |-> jaroWinkler(input.b, input.a),
                     aa |-> jaroWinkler(input.a, input.a)] >>
    /\ UNCHANGED <<input, lruVars, orchVars, netVars, concVars, rateVars>>

NextJW == JWApply

SpecJW == InitJW /\ [][NextJW]_vars

\* C20: jaroWinkler(a, b) = jaroWinkler(b, a) for all strings a and b over the
\* alphabet up to the length bound, jaroWinkler(a, a) = 1 for every non-empty
\* a, and every value lies between 0 and 1.
C20_JaroWinklerSymmetric ==
    \A k \in 1..Len(output) :
        /\ output[k].ab = output[k].ba
        /\ Len(input.a) > 0 => output[k].aa = RatOne
        /\ RatLe(RatZero, output[k].ab) /\ RatLe(output[k].ab, RatOne)
        /\ RatLe(RatZero, output[k].ba) /\ RatLe(output[k].ba, RatOne)

\* Two strings of different lengths with the same characters in another
\* order: their similarity is strictly between 0 and 1
C20_Witness ==
    /\ Len(output) = 1
    /\ input.a = <<"a", "b", "c", "a">>
    /\ input.b = <<"b", "a", "c">>
    /\ RatLt(RatZero, output[1].ab)
    /\ RatLt(output[1].ab, RatOne)

(***************************************************************************)
(* SpecPage: the "Paginate results" part of searchMangaMulti applied to a  *)
(* deduplicated list, a page and a page size.                              *)
(***************************************************************************)
MaxItems == 6
MaxPage == 3
MaxSize == 3

\* A deduplicated list of n entries, each standing for its place in merge order
Merged(n) == [i \in 1..n |-> [id |-> NumToStr(i)]]

InitPage ==
    /\ input \in [list : {Merged(n) : n \in (0..MaxItems) \cup {DefaultLimit, DefaultLimit + 1}},
                  page : (1..MaxPage) \cup {NoNum},
                  limit : (1..MaxSize) \cup {NoNum}]
    /\ output = << >>
    /\ LRUIdle
    /\ OrchIdle
    /\ budget = 0
    /\ tz = "utc"
    /\ NetIdle
    /\ ConcIdle
    /\ RateIdle

PaginateApply ==
    /\ output = << >>
    /\ output' = << Paginate(input.list, PageOf(input), LimitOf(input)) >>
    /\ UNCHANGED <<input, lruVars, orchVars, netVars, concVars, rateVars>>

NextPage == PaginateApply

SpecPage == InitPage /\ [][NextPage]_vars

\* The page and page size asked for
AskedPage == IF input.page = NoNum THEN 1 ELSE input.page
AskedSize == IF input.limit = NoNum THEN 20 ELSE input.limit

\* C22: for a deduplicated list of N entries, page p >= 1 and page size s >= 1
\* (default 20) the response holds the entries at positions (p-1)*s up to p*s
\* (exclusive) in merge order, total = N, count = the number of entries
\* returned (at most s), last_visible_page = ceil(N/s), and has_next_page is
\* true exactly when p*s < N.
C22_PageIsSliceOfMergeOrder ==
    \A k \in 1..Len(output) :
        /\ DOMAIN output[k].data
             = {i \in 1..AskedSize : (AskedPage - 1) * AskedSize + i <= Len(input.list)}
        /\ \A i \in DOMAIN output[k].data :
              output[k].data[i] = input.list[(AskedPage - 1) * AskedSize + i]
        /\ output[k].pagination.items.total = Len(input.list)
        /\ output[k].pagination.items.count = Len(output[k].data)
        /\ output[k].pagination.items.count <= AskedSize
        /\ output[k].pagination.items.per_page = AskedSize
        /\ output[k].pagination.current_page = AskedPage
        /\ output[k].pagination.last_visible_page * AskedSize >= Len(input.list)
        /\ (output[k].pagination.last_visible_page - 1) * AskedSize < Len(input.list)
        /\ output[k].pagination.last_visible_page >= 0
        /\ output[k].pagination.has_next_page
             <=> (AskedPage * AskedSize < Len(input.list))

\* A middle page: full, with entries before it and after it
C22_Witness ==
    /\ Len(output) = 1
    /\ input.page = 2
    /\ input.limit = 2
    /\ Len(input.list) = 5
    /\ output[1].data = <<input.list[3], input.list[4]>>
    /\ output[1].pagination.has_next_page
    /\ output[1].pagination.last_visible_page = 3

(***************************************************************************)
(* SpecIds: getMangaDetails, getChapters and getChapterPages called with   *)
(* an id, on new caches, up to what the provider call leads to.            *)
(***************************************************************************)
unknownprovider == <<"u","n","k","n","o","w","n","p","r","o","v","i","d","e","r">>

RECURSIVE Split(_, _)
\* String.prototype.split with a one-character separator
Split(str, sep) ==
    IF \A i \in 1..Len(str) : str[i] # sep THEN <<str>>
    ELSE LET k == CHOOSE i \in 1..Len(str) :
                      str[i] = sep /\ \A j \in 1..(i - 1) : str[j] # sep
         IN  <<SubSeq(str, 1, k - 1)>> \o Split(SubSeq(str, k + 1, Len(str)), sep)

\* Element n of an array destructuring: undefined past the end
Destructured(arr, n) == IF n <= Len(arr) THEN arr[n] ELSE NoStr

\* const [providerId, seriesId] = globalId.split(':')
ParsedId(globalId) ==
    [providerId |-> Destructured(Split(globalId, ":"), 1),
     rawId |-> Destructured(Split(globalId, ":"), 2)]

Handlers == {"getMangaDetails", "getChapters", "getChapterPages"}

\* The word in the message of the id format error of each handler
IdWord(handler) ==
    CASE handler = "getMangaDetails" -> "manga"
      [] handler = "getChapters" -> "series"
      [] handler = "getChapterPages" -> "chapter"

\* What a call ends with: a thrown error or a returned value, the provider
\* method called (if any) with its argument
Thrown(name, message, detail, parsed, called) ==
    [kind |-> "throws", name |-> name, message |-> message, detail |-> detail,
     parsed |-> parsed, called |-> called, empty |-> FALSE]
ReturnedValue(parsed, empty) ==
    [kind |-> "returns", name |-> "", message |-> "", detail |-> NoStr,
     parsed |-> parsed, called |-> TRUE, empty |-> empty]

\* new Error('Invalid ... ID format. Expected: provider:id')
InvalidIdError(handler, parsed) ==
    Thrown("Error", "Invalid " \o IdWord(handler) \o " ID format. Expected: provider:id",
           NoStr, parsed, FALSE)

\* new Error(`Provider not found: ${providerId}`)
ProviderNotFoundError(parsed) ==
    Thrown("Error", "Provider not found: ", parsed.providerId, parsed, FALSE)

\* What the provider call of a handler can end with: a result, or an error of
\* fetchJson or of the schema
ProviderOutcomes == {"ok", "HTTP_ERROR", "TIMEOUT", "NETWORK_ERROR", "ZodError"}

\* The error provider.details rethrows
ProviderError(outcome, parsed) ==
    IF outcome = "ZodError" THEN Thrown("ZodError", "invalid_type", NoStr, parsed, TRUE)
    ELSE Thrown("MangaApiError", outcome, NoStr, parsed, TRUE)

\* The handler from the provider call on: getMangaDetails rethrows, and
\* provider.chapters and provider.pages catch and return []
AfterProviderCall(handler, parsed, outcome) ==
    IF outcome = "ok" THEN ReturnedValue(parsed, FALSE)
    ELSE IF handler = "getMangaDetails" THEN ProviderError(outcome, parsed)
    ELSE ReturnedValue(parsed, TRUE)

\* The handler from the parsing of its id on
HandleParsed(handler, parsed, outcome) ==
    IF ~TruthyStr(parsed.providerId) \/ ~TruthyStr(parsed.rawId)
    THEN InvalidIdError(handler, parsed)
    ELSE IF ~IsRegistered(parsed.providerId) THEN ProviderNotFoundError(parsed)
    ELSE AfterProviderCall(handler, parsed, outcome)

\* getMangaDetails / getChapters / getChapterPages on a cache miss
Handle(handler, globalId, outcome) == HandleParsed(handler, ParsedId(globalId), outcome)

MaxSegments == 3

IdSegments == {<< >>, mangadex, comick, unknownprovider, <<"1","2","3">>}

\* The ids: up to MaxSegments segments joined by ':'
Ids == {Join(segs, <<":">>) : segs \in UNION {[1..n -> IdSegments] : n \in 1..MaxSegments}}

InitIds ==
    /\ input \in [id : Ids]
    /\ output = << >>
    /\ LRUIdle
    /\ OrchIdle
    /\ budget = 0
    /\ tz = "utc"
    /\ NetIdle
    /\ ConcIdle
    /\ RateIdle

HandleApply(handler, outcome) ==
    /\ output = << >>
    /\ output' = << [handler |-> handler, result |-> Handle(handler, input.id, outcome)] >>
    /\ UNCHANGED <<input, lruVars, orchVars, netVars, concVars, rateVars>>

NextIds == \E handler \in Handlers, outcome \in ProviderOutcomes : HandleApply(handler, outcome)

SpecIds == InitIds /\ [][NextIds]_vars

\* The number of separators in an id, and its parts before and after the first
Separators(id) == Cardinality({i \in 1..Len(id) : id[i] = ":"})
FirstSeparator(id) == CHOOSE i \in 1..Len(id) : id[i] = ":" /\ \A j \in 1..(i - 1) : id[j] # ":"
ProviderPart(id) == IF Separators(id) = 0 THEN id ELSE SubSeq(id, 1, FirstSeparator(id) - 1)
RawPart(id) == IF Separators(id) = 0 THEN << >> ELSE SubSeq(id, FirstSeparator(id) + 1, Len(id))

IsInvalidId(result) ==
    /\ result.kind = "throws"
    /\ result.name = "Error"
    /\ \E handler \in Handlers : result = InvalidIdError(handler, result.parsed)

IsProviderNotFound(result) ==
    /\ result.kind = "throws"
    /\ result.name = "Error"
    /\ result.message = "Provider not found: "

\* C23: for getDetails, getChapters and getPages an id with no separator, or
\* with an empty provider or raw part, fails with the id format error before
\* any provider call; an id of one provider part and one raw part whose provider
\* is not registered fails with the provider-not-found error, never with an
\* empty list; the two errors differ from each other and from every error a
\* provider call ends with.
C23_IdErrorsDistinguished ==
    \A k \in 1..Len(output) :
        /\ (Separators(input.id) = 0 \/ ProviderPart(input.id) = << >>
              \/ RawPart(input.id) = << >>)
             => IsInvalidId(output[k].result) /\ ~output[k].result.called
        /\ ( /\ Separators(input.id) = 1
             /\ ProviderPart(input.id) # << >>
             /\ RawPart(input.id) # << >>
             /\ \A i \in 1..Len(Registry) : Registry[i].id # ProviderPart(input.id) )
             => /\ IsProviderNotFound(output[k].result)
                /\ output[k].result.detail = ProviderPart(input.id)
                /\ ~output[k].result.called
        /\ ~(IsInvalidId(output[k].result) /\ IsProviderNotFound(output[k].result))
        /\ output[k].result.called
             => ~IsInvalidId(output[k].result) /\ ~IsProviderNotFound(output[k].result)

\* getChapters("unknownprovider:123") has failed with the provider-not-found error
C23_Witness ==
    /\ Len(output) = 1
    /\ output[1].handler = "getChapters"
    /\ input.id = unknownprovider \o <<":">> \o <<"1","2","3">>
    /\ IsProviderNotFound(output[1].result)
    /\ output[1].result.detail = unknownprovider

\* C24: an id given to getDetails, getChapters or getPages is rejected as
\* invalid or split into a provider identifier and a non-empty raw identifier
\* that together, joined by ':', are the whole id.
C24_IdSplitLossless ==
    \A k \in 1..Len(output) :
        \/ IsInvalidId(output[k].result)
        \/ /\ TruthyStr(output[k].result.parsed.rawId)
           /\ output[k].result.parsed.providerId \o <<":">> \o output[k].result.parsed.rawId
                = input.id

(***************************************************************************)
(* SpecPages: getChapterPages from the answer of the provider on.          *)
(***************************************************************************)
\* A page as the provider answers it: img (NoStr when it has none, which
\* ProviderPageSchema rejects) and page (NoNum when it has none)
RawPage(img, page) == [img |-> img, page |-> page]

\* ProviderPageSchema.parse succeeds
ValidPage(raw) == raw.img # NoStr

RECURSIVE PagesFrom(_, _)
\* the map((page, index) => ...).filter(Boolean) of ConsumetProvider.pages,
\* from array position index (0-based) on
PagesFrom(answer, index) ==
    IF index >= Len(answer) THEN << >>
    ELSE (IF ValidPage(answer[index + 1])
          THEN << [img |-> answer[index + 1].img,
                   page |-> OrElseNum(answer[index + 1].page, index)] >>
          ELSE << >>) \o PagesFrom(answer, index + 1)

\* ConsumetProvider.pages on the answer of fetchJson
ProviderPages(answer) == PagesFrom(answer, 0)

\* providerPages.map((page, index) => ({index: page.page || index, ...}))
PageImages(providerPages, dataSaver) ==
    [i \in 1..Len(providerPages) |->
        [index |-> OrElseNum(providerPages[i].page, i - 1),
         originalUrl |-> providerPages[i].img,
         dataSaverUrl |-> IF dataSaver THEN providerPages[i].img ELSE NoStr]]

\* One page put into a list sorted by index, after the pages of the same index
InsertByIndex(sorted, page) ==
    LET before == Cardinality({i \in 1..Len(sorted) : sorted[i].index <= page.index})
    IN  SubSeq(sorted, 1, before) \o <<page>> \o SubSeq(sorted, before + 1, Len(sorted))

RECURSIVE SortByIndex(_)
\* pages.sort((a, b) => a.index - b.index): stable
SortByIndex(pages) ==
    IF Len(pages) = 0 THEN << >>
    ELSE InsertByIndex(SortByIndex(SubSeq(pages, 1, Len(pages) - 1)), pages[Len(pages)])

\* getChapterPages from the answer of the provider on
ChapterPages(answer, dataSaver) == SortByIndex(PageImages(ProviderPages(answer), dataSaver))

MaxPages == 3

\* The pages of an answer: without img, without index, with an index
RawPages ==
    {RawPage(NoStr, NoNum), RawPage(<<"a">>, NoNum)}
        \cup {RawPage(<<"a">>, n) : n \in 0..MaxPages}

InitPages ==
    /\ input \in [response : UNION {[1..n -> RawPages] : n \in 0..MaxPages}]
    /\ output = << >>
    /\ LRUIdle
    /\ OrchIdle
    /\ budget = 0
    /\ tz = "utc"
    /\ NetIdle
    /\ ConcIdle
    /\ RateIdle

PagesApply(dataSaver) ==
    /\ output = << >>
    /\ output' = <<ChapterPages(input.response, dataSaver)>>
    /\ UNCHANGED <<input, lruVars, orchVars, netVars, concVars, rateVars>>

NextPages == \E dataSaver \in BOOLEAN : PagesApply(dataSaver)

SpecPages == InitPages /\ [][NextPages]_vars

\* C25: the page list returned by getPages for every provider answer is in
\* ascending index order and the indexes of its N pages are exactly
\* 0, 1, ..., N-1, with no gap and no duplicate.
C25_PageIndexesGapless ==
    \A k \in 1..Len(output) :
        \A i \in 1..Len(output[k]) : output[k][i].index = i - 1

(***************************************************************************)
(* SpecChapters: ConsumetProvider.chapters from the answer of fetchJson on.*)
(***************************************************************************)
\* A chapter number of an answer: a number (num), a string (str) or neither
ChapterNumber(num, str) == [num |-> num, str |-> str]
MissingNumber == ChapterNumber(NoNum, NoStr)

\* A chapter as the provider answers it; ProviderChapterSchema rejects one
\* without id
RawChapter(id, chapterNumber) == [id |-> id, chapterNumber |-> chapterNumber]
ValidChapter(raw) == raw.id # NoStr

\* chapterNumber?.toString()
NumberText(chapterNumber) ==
    IF chapterNumber.num # NoNum THEN NumToStr(chapterNumber.num) ELSE chapterNumber.str

DigitChars == {Digits[i] : i \in 1..Len(Digits)}
DigitValue(c) == CHOOSE n \in 0..9 : Digits[n + 1] = c

\* The number of digits of str from position i on
DigitRun(str, i) ==
    Cardinality({j \in i..Len(str) : \A k \in i..j : str[k] \in DigitChars})

\* The number of white space characters str starts with
LeadingSpace(str) ==
    Cardinality({j \in 1..Len(str) : \A k \in 1..j : str[k] \in WhiteSpace})

RECURSIVE DigitsValue(_)
\* The value of a string of digits (0 for the empty one)
DigitsValue(ds) ==
    IF Len(ds) = 0 THEN 0
    ELSE 10 * DigitsValue(SubSeq(ds, 1, Len(ds) - 1)) + DigitValue(ds[Len(ds)])

RECURSIVE PowerOfTen(_)
PowerOfTen(n) == IF n = 0 THEN 1 ELSE 10 * PowerOfTen(n - 1)

\* A number of parseFloat, or NaN
Float(n, d) == [nan |-> FALSE, value |-> Rat(n, d)]
FloatNaN == [nan |-> TRUE, value |-> RatZero]

\* parseFloat of an unsigned decimal text: leading white space is skipped, the
\* longest prefix digits[.digits] or .digits is the number, and NaN if there is
\* none
parseFloatAt(str, start, whole) ==
    LET dot == start + whole
        frac == IF dot <= Len(str) /\ str[dot] = "." THEN DigitRun(str, dot + 1) ELSE 0
    IN  IF whole = 0 /\ frac = 0 THEN FloatNaN
        ELSE Float(DigitsValue(SubSeq(str, start, start + whole - 1)) * PowerOfTen(frac)
                     + DigitsValue(SubSeq(str, dot + 1, dot + frac)),
                   PowerOfTen(frac))

parseFloat(str) ==
    parseFloatAt(str, LeadingSpace(str) + 1, DigitRun(str, LeadingSpace(str) + 1))

\* parseFloat(a.chapterNumber?.toString() || '0')
SortNumber(chapter) == parseFloat(OrElseStr(NumberText(chapter.chapterNumber), <<"0">>))

\* The sign of x - y, NaN if one of them is
FloatMinus(x, y) ==
    IF x.nan \/ y.nan THEN NaN
    ELSE IF RatLt(x.value, y.value) THEN 0 - 1
    ELSE IF RatLt(y.value, x.value) THEN 1
    ELSE 0

\* The comparator of the sort: order === 'asc' ? aNum - bNum : bNum - aNum
ChapterComparator(a, b, order) ==
    IF order = "asc" THEN FloatMinus(SortNumber(a), SortNumber(b))
    ELSE FloatMinus(SortNumber(b), SortNumber(a))

\* Array.prototype.sort reads a NaN of the comparator as +0
SortCompare(a, b, order) ==
    IF ChapterComparator(a, b, order) = NaN THEN 0 ELSE ChapterComparator(a, b, order)

\* The comparator is a consistent one for the chapters of the list
ConsistentComparator(list, order) ==
    \A i, j, k \in 1..Len(list) :
        /\ SortCompare(list[i], list[i], order) = 0
        /\ SortCompare(list[i], list[j], order) = 0
             => SortCompare(list[i], list[k], order) = SortCompare(list[j], list[k], order)
        /\ SortCompare(list[i], list[j], order) = 0 - SortCompare(list[j], list[i], order)
        /\ (SortCompare(list[i], list[j], order) < 0 /\ SortCompare(list[j], list[k], order) < 0)
             => SortCompare(list[i], list[k], order) < 0

\* One chapter put into a sorted list, after the chapters that compare equal
InsertByNumber(sorted, chapter, order) ==
    LET before == Cardinality({i \in 1..Len(sorted) : SortCompare(sorted[i], chapter, order) <= 0})
    IN  SubSeq(sorted, 1, before) \o <<chapter>> \o SubSeq(sorted, before + 1, Len(sorted))

RECURSIVE StableSort(_, _)
StableSort(list, order) ==
    IF Len(list) = 0 THEN << >>
    ELSE InsertByNumber(StableSort(SubSeq(list, 1, Len(list) - 1), order), list[Len(list)], order)

\* The orders the chapters of a list can be put in
Arrangements(list) ==
    {[i \in 1..Len(list) |-> list[f[i]]] :
        f \in {g \in [1..Len(list) -> 1..Len(list)] :
                  \A i, j \in 1..Len(list) : g[i] = g[j] => i = j}}

\* validatedChapters.sort(comparator): the stable sort if the comparator is
\* consistent, and an order the implementation chooses if it is not
SortOutcomes(list, order) ==
    IF ConsistentComparator(list, order) THEN {StableSort(list, order)}
    ELSE Arrangements(list)

\* chapters.map(parse).filter(Boolean)
validatedChapters(answer) == SelectSeq(answer, ValidChapter)

\* opts?.order || 'asc'
OrderOf(opts) == IF opts = "undefined" THEN "asc" ELSE opts

MaxChapters == 3

ChapterNumbers ==
    {MissingNumber, ChapterNumber(3, NoStr), ChapterNumber(NoNum, << >>),
     ChapterNumber(NoNum, <<"1">>), ChapterNumber(NoNum, <<"2">>),
     ChapterNumber(NoNum, <<"1", "0">>), ChapterNumber(NoNum, <<"1", ".", "5">>),
     ChapterNumber(NoNum, <<"x">>)}

RawChapters ==
    {RawChapter(<<"c">>, number) : number \in ChapterNumbers}
        \cup {RawChapter(NoStr, MissingNumber)}

InitChapters ==
    /\ input \in [answer : UNION {[1..n -> RawChapters] : n \in 0..MaxChapters}]
    /\ output = << >>
    /\ LRUIdle
    /\ OrchIdle
    /\ budget = 0
    /\ tz = "utc"
    /\ NetIdle
    /\ ConcIdle
    /\ RateIdle

ChaptersApply(opts, sorted) ==
    /\ output = << >>
    /\ sorted \in SortOutcomes(validatedChapters(input.answer), OrderOf(opts))
    /\ output' = <<[order |-> OrderOf(opts), chapters |-> sorted]>>
    /\ UNCHANGED <<input, lruVars, orchVars, netVars, concVars, rateVars>>

NextChapters ==
    \E opts \in {"undefined", "asc", "desc"} :
        \E sorted \in Arrangements(validatedChapters(input.answer)) : ChaptersApply(opts, sorted)

SpecChapters == InitChapters /\ [][NextChapters]_vars

\* The number a chapter is ordered by when a missing or unparsable number
\* counts as 0
NumberOrZero(chapter) ==
    IF chapter.chapterNumber = MissingNumber \/ SortNumber(chapter).nan THEN RatZero
    ELSE SortNumber(chapter).value

\* C26: the chapters an adapter returns are ordered by numeric chapter number,
\* ascending by default and descending for 'desc', a chapter with a missing or
\* unparsable number ordered as if its number were 0.
C26_ChaptersSortedUnparsableAsZero ==
    \A k \in 1..Len(output) :
        \A i \in 1..(Len(output[k].chapters) - 1) :
            IF output[k].order = "asc"
            THEN RatLe(NumberOrZero(output[k].chapters[i]), NumberOrZero(output[k].chapters[i + 1]))
            ELSE RatLe(NumberOrZero(output[k].chapters[i + 1]), NumberOrZero(output[k].chapters[i]))

(***************************************************************************)
(* SpecMatch: dedupeAndMerge, one record per step, on titles of which one  *)
(* is similar to two accumulated entries that are not similar to each      *)
(* other.                                                                  *)
(***************************************************************************)
TitleBaba == <<"b","a","b","a">>
TitleBba == <<"b","b","a">>
\* Similar to both, more to the second
TitleBbaa == <<"b","b","a","a">>
\* As similar to the one as to the other
TitleAbba == <<"a","b","b","a">>

MatchInputs ==
    { Returned(mangadex, Rec(<<"1">>, TitleBaba)), Returned(mangadex, Rec(<<"2">>, TitleBba)),
      Returned(comick, Rec(<<"3">>, TitleBbaa)), Returned(comick, Rec(<<"4">>, TitleAbba)) }

NextMatch == \E in \in MatchInputs : MergeStep(in.provider, in.result)

SpecMatch == InitMerge /\ [][NextMatch]_vars

\* The similarity of a record to each accumulated entry
SimilaritiesTo(allManga, result) ==
    [i \in 1..Len(allManga) |-> calculateSimilarity(result, ExistingAsResult(allManga[i]), tz)]

\* Entry e has one more source after the step than before
GrewAt(before, after, e) == Len(after[e].sources) = Len(before[e].sources) + 1

\* What the step did with the record agrees with the similarities sims of the
\* record to the entries accumulated before it
MatchedBySimilarity(sims, before, after) ==
    /\ \A e \in 1..Len(before) :
          GrewAt(before, after, e) =>
             /\ RatLe(threshold, sims[e])
             /\ \A j \in 1..Len(before) :
                   /\ RatLe(sims[j], sims[e])
                   /\ sims[j] = sims[e] => e <= j
    /\ Len(after) = Len(before) + 1 <=> \A j \in 1..Len(before) : RatLt(sims[j], threshold)
    /\ Len(after) = Len(before) <=> \E e \in 1..Len(before) : GrewAt(before, after, e)
    /\ Len(after) \in {Len(before), Len(before) + 1}

\* C28: a record of dedupeAndMerge is merged into an accumulated entry only if
\* its similarity to that entry is at least 0.85 and no accumulated entry has a
\* higher one, the earliest of the entries with the highest similarity being
\* taken; it becomes a new entry if and only if no accumulated entry reaches
\* 0.85.
C28_MergesIntoBestMatch ==
    [][ Len(input') = Len(input) + 1 =>
          MatchedBySimilarity(SimilaritiesTo(output.allManga, input'[Len(input')].result),
                              output.allManga, output'.allManga) ]_vars

\* The third record reached the threshold for both accumulated entries and was
\* merged into the second, the more similar one
C28_Witness ==
    /\ Len(input) = 3
    /\ input[3].result.title = TitleBbaa
    /\ Len(output.allManga) = 2
    /\ output.allManga[1].title = TitleBaba
    /\ output.allManga[2].title = TitleBba
    /\ RatLe(threshold, calculateSimilarity(input[3].result, ExistingAsResult(output.allManga[1]), tz))
    /\ Len(output.allManga[1].sources) = 1
    /\ Len(output.allManga[2].sources) = 2

(***************************************************************************)
(* SpecMerge: what one step does to the accumulated entries.               *)
(***************************************************************************)
\* How often a source occurs in a source list
Occurrences(sources, src) == Cardinality({i \in 1..Len(sources) : sources[i] = src})

\* after is before with src added once
OneSourceAdded(before, after, src) ==
    /\ Len(after) = Len(before) + 1
    /\ \A x \in Range(after) \cup {src} :
          Occurrences(after, x) = Occurrences(before, x) + (IF x = src THEN 1 ELSE 0)

RECURSIVE TotalSources(_)
TotalSources(allManga) ==
    IF Len(allManga) = 0 THEN 0
    ELSE Len(allManga[1].sources) + TotalSources(Tail(allManga))

\* The step made a new entry with the one source src
CreatedEntry(before, after, src) ==
    /\ Len(after) = Len(before) + 1
    /\ SubSeq(after, 1, Len(before)) = before
    /\ after[Len(after)].sources = <<src>>

\* The step added the source src to entry e and changed no other entry
AppendedTo(before, after, e, src) ==
    /\ Len(after) = Len(before)
    /\ OneSourceAdded(before[e].sources, after[e].sources, src)
    /\ \A f \in 1..Len(before) : f # e => after[f] = before[f]

\* C29: each record processed by dedupeAndMerge either creates one new entry
\* with a single source or appends exactly one source to exactly one entry and
\* leaves every other entry unchanged; after every record the number of
\* sources over all entries is the number of records processed and there are
\* no more entries than records.
C29_OneSourcePerRecord ==
    [][ Len(input') = Len(input) + 1 =>
          /\ \/ CreatedEntry(output.allManga, output'.allManga, SourceOf(input'[Len(input')]))
             \/ \E e \in 1..Len(output.allManga) :
                   AppendedTo(output.allManga, output'.allManga, e, SourceOf(input'[Len(input')]))
          /\ TotalSources(output'.allManga) = Len(input')
          /\ Len(output'.allManga) <= Len(input') ]_vars

\* Four records made two entries, one of three sources and one of one
C29_Witness ==
    /\ Len(input) = 4
    /\ Len(output.allManga) = 2
    /\ Len(output.allManga[1].sources) = 3
    /\ Len(output.allManga[2].sources) = 1
    /\ TotalSources(output.allManga) = 4

\* The fields of an entry that a merge leaves to the record seen first
FirstSeen(manga) ==
    <<manga.title, manga.id, manga.status, manga.tags, manga.authors, manga.year>>

\* The fields of an entry that follow its representative
OfRepresentative(manga) ==
    <<manga.provider, manga.providerId, manga.cover, manga.synopsis, manga.score,
      manga.chapters, manga.volumes>>

\* A field after a merge is what it was, or the value the record supplies
KeptOrSuppliedStr(before, after, supplied) ==
    after # before => (after = supplied /\ supplied # NoStr /\ supplied # << >>)
KeptOrSuppliedNum(before, after, supplied) ==
    after # before => (after = supplied /\ supplied # NoNum /\ supplied # NaN)

\* What a merge of the record in into the entry may change
MergeKeepsFields(before, after, in) ==
    /\ FirstSeen(after) = FirstSeen(before)
    /\ SourceOf(in).priority <= getProviderPriority(before.provider)
         => OfRepresentative(after) = OfRepresentative(before)
    /\ KeptOrSuppliedStr(before.cover, after.cover, in.result.image)
    /\ KeptOrSuppliedStr(before.synopsis, after.synopsis, in.result.description)
    /\ KeptOrSuppliedNum(before.score, after.score, in.result.rating)
    /\ KeptOrSuppliedNum(before.chapters, after.chapters, in.result.chapters)
    /\ KeptOrSuppliedNum(before.volumes, after.volumes, in.result.volumes)

\* C30: a merge never changes title, id, status, tags, authors or year of its
\* target; when the priority of the new source does not exceed that of the
\* current representative no field of the representative changes; on
\* promotion cover, synopsis, score, chapters and volumes are each kept or
\* replaced by a value the new record supplies, never by an absent or empty
\* one.
C30_MergeKeepsFirstSeenFields ==
    [][ Len(input') = Len(input) + 1 =>
          \A e \in 1..Len(output.allManga) :
              MergeKeepsFields(output.allManga[e], output'.allManga[e], input'[Len(input')]) ]_vars

\* An entry was promoted to a record that supplies no cover, synopsis, score,
\* chapters or volumes, and has those of the record seen first
C30_Witness ==
    \E m \in 1..Len(output.allManga) :
        /\ output.allManga[m].id = GlobalId(mangadex, 1)
        /\ output.allManga[m].title = OnePiece
        /\ output.allManga[m].provider = comick
        /\ output.allManga[m].providerId = RecordD.id
        /\ output.allManga[m].cover = RecordA.image
        /\ output.allManga[m].synopsis = RecordA.description
        /\ output.allManga[m].score = RecordA.rating
        /\ output.allManga[m].chapters = RecordA.chapters
        /\ output.allManga[m].volumes = RecordA.volumes

(***************************************************************************)
(* SpecSelect: the provider selection of searchMangaMulti and the searches *)
(* it starts, for a query that is not blank and not cached.                *)
(***************************************************************************)
MaxListed == 2

\* The ids a provider list is made of: three registered ones and one that is not
ListedIds == {mangadex, comick, mangapark, <<"x">>}

ProviderLists == {NoList} \cup UNION {[1..n -> ListedIds] : n \in 0..MaxListed}

Languages == {NoStr, << >>, en, es, ja, <<"x", "x">>}

InitSelect ==
    /\ input \in [providers : ProviderLists, lang : Languages]
    /\ output = << >>
    /\ LRUIdle
    /\ OrchIdle
    /\ budget = 0
    /\ tz = "utc"
    /\ NetIdle
    /\ ConcIdle
    /\ RateIdle

\* targetProviders.map(async provider => provider.search(query, page, lang))
SearchCalls(r) == [i \in 1..Len(TargetProviders(r)) |-> NewCall(TargetProviders(r)[i])]

SelectApply(query, page) ==
    /\ output = << >>
    /\ output' = <<SearchCalls(Request(query, page, input.lang, input.providers, NoNum))>>
    /\ UNCHANGED <<input, lruVars, orchVars, netVars, concVars, rateVars>>

NextSelect == \E page \in {NoNum, 2} : SelectApply(QueryOne, page)

SpecSelect == InitSelect /\ [][NextSelect]_vars

\* The providers the calls go to, in the order of the calls
Queried(cs) == [i \in 1..Len(cs) |-> cs[i].provider]

\* ids is the list listed without the ids that are not registered and without
\* the second and later occurrences of an id
RegisteredOnce(listed, ids) ==
    /\ \A i \in 1..Len(ids) : \E p \in Range(Registry) : p.id = ids[i]
    /\ \A i, j \in 1..Len(ids) : ids[i] = ids[j] => i = j
    /\ \A k \in 1..Len(listed) :
          (\E p \in Range(Registry) : p.id = listed[k]) => listed[k] \in Range(ids)
    /\ \A i, j \in 1..Len(ids) :
          i < j => \E k, l \in 1..Len(listed) :
                      /\ k < l
                      /\ listed[k] = ids[i]
                      /\ listed[l] = ids[j]
                      /\ \A m \in 1..(k - 1) : listed[m] # ids[i]
                      /\ \A m \in 1..(l - 1) : listed[m] # ids[j]

\* ids is the registry, in its order, restricted to the providers that pass
IsRegistryWhere(ids, Passes(_)) ==
    /\ \A i \in 1..Len(ids) : \E p \in Range(Registry) : p.id = ids[i] /\ Passes(p)
    /\ \A p \in Range(Registry) : Passes(p) => p.id \in Range(ids)
    /\ \A i, j \in 1..Len(ids) :
          i < j => \E k, l \in 1..Len(Registry) :
                      k < l /\ Registry[k].id = ids[i] /\ Registry[l].id = ids[j]

\* C31: searchMulti queries, with one search call each, the registered
\* providers named in a non-empty provider list, in list order and no others;
\* without such a list the providers that support the language given; and
\* without a language every provider of the registry.
C31_QueriesSelectedProvidersOnce ==
    \A k \in 1..Len(output) :
        IF input.providers # NoList /\ input.providers # << >>
        THEN RegisteredOnce(input.providers, Queried(output[k]))
        ELSE IF input.lang # NoStr /\ input.lang # << >>
        THEN IsRegistryWhere(Queried(output[k]), LAMBDA p : input.lang \in Range(p.languages))
        ELSE IsRegistryWhere(Queried(output[k]), LAMBDA p : TRUE)

(***************************************************************************)
(* SpecDetails: getMangaDetails calls on the details cache, each in two    *)
(* steps, before and after its await of provider.details.                  *)
(***************************************************************************)
\* How provider.details can end: with an answer that passes
\* ProviderSearchResultSchema (with a release date, with one that is no date,
\* with none), with one that does not pass, or with an error of fetchJson
DetailsOutcomes ==
    {"ok", "nodate", "baddate", "invalid", "HTTP_ERROR", "TIMEOUT", "NETWORK_ERROR"}

\* What /info/<seriesId> answers
DetailsAnswer(seriesId, outcome) ==
    CASE outcome = "ok" ->
           Item([Rec(seriesId, OnePiece) EXCEPT !.releaseDate = DateOf(2020), !.rating = 9])
      [] outcome = "nodate" -> Item(Rec(seriesId, OnePiece))
      [] outcome = "baddate" -> Item([Rec(seriesId, OnePiece) EXCEPT !.releaseDate = InvalidDate])
      [] OTHER -> BadItem(Rec(seriesId, NoStr))

\* "Convert to normalized format"
DetailsToManga(globalId, providerId, seriesId, details, zone) ==
    [id |-> globalId,
     title |-> details.title,
     cover |-> OrElseStr(details.image, PlaceholderCover),
     status |-> OrElseStr(details.status, UnknownStatus),
     score |-> details.rating,
     synopsis |-> details.description,
     tags |-> IF details.genres = NoList THEN << >> ELSE details.genres,
     authors |-> IF details.authors = NoList THEN << >> ELSE details.authors,
     year |-> IF TruthyDate(details.releaseDate) THEN getFullYear(details.releaseDate, zone)
              ELSE NoNum,
     provider |-> providerId,
     providerId |-> seriesId,
     chapters |-> details.chapters,
     volumes |-> details.volumes]

\* A schema check that lets every manga pass
MangaSchemaAccepts_Any(manga) == TRUE

\* MangaSchema.parse succeeds: the required strings are there and no number is
\* NaN
MangaSchemaAccepts(manga) ==
    /\ manga.id # NoStr
    /\ manga.title # NoStr
    /\ manga.cover # NoStr
    /\ manga.status # NoStr
    /\ manga.provider # NoStr
    /\ manga.providerId # NoStr
    /\ manga.year # NaN
    /\ manga.score # NaN
    /\ manga.chapters # NaN
    /\ manga.volumes # NaN

\* The end of a getMangaDetails that missed: the manga stored and returned, or
\* the error thrown
DetailsEndOf(globalId, parsed, outcome, zone) ==
    IF outcome \in {"HTTP_ERROR", "TIMEOUT", "NETWORK_ERROR"}
    THEN [pc |-> "failed", value |-> NoValue, error |-> "MangaApiError"]
    ELSE IF ~DetailsAnswer(parsed.rawId, outcome).wellFormed
    THEN [pc |-> "failed", value |-> NoValue, error |-> "ZodError"]
    ELSE IF ~MangaSchemaAccepts(DetailsToManga(globalId, parsed.providerId, parsed.rawId,
                                               DetailsAnswer(parsed.rawId, outcome).rec, zone))
    THEN [pc |-> "failed", value |-> NoValue, error |-> "ZodError"]
    ELSE [pc |-> "done",
          value |-> DetailsToManga(globalId, parsed.providerId, parsed.rawId,
                                   DetailsAnswer(parsed.rawId, outcome).rec, zone),
          error |-> ""]

MaxDetails == 3

DetailsIds == {GlobalId(mangadex, 1), GlobalId(comick, 2)}

InitDetails ==
    /\ ConcIdle
    /\ LRUIdle
    /\ OrchIdle
    /\ budget = 0
    /\ tz = "utc"
    /\ NetIdle
    /\ RateIdle
    /\ PureIdle

DetailsFrame ==
    UNCHANGED <<searchCache, chaptersCache, recency, phase, req, target, calls, response,
                budget, hist, tz, stored, lruVars, netVars, rateVars, pureVars>>

\* getMangaDetails up to its await: "Check cache first"
DetailsBegin(globalId) ==
    /\ Len(tasks) < MaxDetails
    /\ detailsCache' = LRUGetMap(detailsCache, globalId)
    /\ tasks' = Append(tasks,
          IF LRUGetValue(detailsCache, globalId) # NoValue
          THEN [id |-> globalId, pc |-> "hit", outcome |-> "",
                value |-> LRUGetValue(detailsCache, globalId), error |-> ""]
          ELSE [id |-> globalId, pc |-> "await", outcome |-> "", value |-> NoValue,
                error |-> ""])
    /\ DetailsFrame

\* getMangaDetails from its await on, the end being what DetailsEndOf gives
DetailsEndWith(i, outcome, end) ==
    /\ tasks' = [tasks EXCEPT ![i] = [id |-> tasks[i].id, pc |-> end.pc, outcome |-> outcome,
                                      value |-> end.value, error |-> end.error]]
    /\ detailsCache' = IF end.pc = "done"
                       THEN LRUSet(detailsCache, detailsCacheMax, tasks[i].id, end.value)
                       ELSE detailsCache
    /\ DetailsFrame

DetailsEnd(i, outcome) ==
    /\ i \in 1..Len(tasks)
    /\ tasks[i].pc = "await"
    /\ DetailsEndWith(i, outcome, DetailsEndOf(tasks[i].id, ParsedId(tasks[i].id), outcome, tz))

NextDetails ==
    \/ \E globalId \in DetailsIds : DetailsBegin(globalId)
    \/ \E i \in 1..MaxDetails, outcome \in DetailsOutcomes : DetailsEnd(i, outcome)

SpecDetails == InitDetails /\ [][NextDetails]_vars

\* The outcomes of provider.details that are a failure in transport or give a
\* result that fails validation
FailingDetails == {"baddate", "invalid", "HTTP_ERROR", "TIMEOUT", "NETWORK_ERROR"}

\* Call i ends in this step
DetailsEnds(i) == i <= Len(tasks) /\ tasks[i].pc = "await" /\ tasks'[i].pc # "await"

\* C32: getDetails fails towards its caller whenever the details call of the
\* provider fails in transport or its result fails validation, and then leaves
\* the details cache unchanged; what a call stores is its validated result,
\* and every value in the cache is a manga with title, id and a year that is
\* a number or absent.
C32_DetailsFailureNotCached ==
    [][ \A i \in 1..MaxDetails :
          DetailsEnds(i) =>
             /\ tasks'[i].outcome \in FailingDetails
                  => /\ tasks'[i].pc = "failed"
                     /\ tasks'[i].error \in {"MangaApiError", "ZodError"}
                     /\ detailsCache' = detailsCache
             /\ tasks'[i].outcome \notin FailingDetails
                  => /\ tasks'[i].pc = "done"
                     /\ LRUGetValue(detailsCache', tasks[i].id) = tasks'[i].value
             /\ \A k \in 1..Len(detailsCache') :
                   /\ detailsCache'[k].value.id = detailsCache'[k].key
                   /\ detailsCache'[k].value.title # NoStr
                   /\ detailsCache'[k].value.year # NaN ]_vars

\* A call for an id failed on a result that does not validate while the id was
\* cached by a call that began before it, and the cache holds that value
C32_Witness ==
    /\ Len(tasks) = 2
    /\ tasks[1].id = tasks[2].id
    /\ tasks[1].pc = "done"
    /\ tasks[2].pc = "failed"
    /\ tasks[2].outcome = "baddate"
    /\ LRUGetValue(detailsCache, tasks[1].id) = tasks[1].value
    /\ Len(detailsCache) = 1

(***************************************************************************)
(* SpecSearch: ConsumetProvider.search of one adapter, from its call to    *)
(* its end.                                                                *)
(***************************************************************************)
\* search(query, page, lang): encodeURIComponent(query.trim()) is evaluated
\* before the try block, and what it throws leaves search; everything after
\* it ends in a returned list
AdapterSearch(provider, r, outcome) ==
    IF outcome = "throws" THEN [kind |-> "throws", error |-> "URIError", data |-> << >>]
    ELSE [kind |-> "returns", error |-> "", data |-> SearchData(provider, r, outcome)]

SearchQueries == {QueryOne, <<LoneSurrogate>>, <<"o", LoneSurrogate, "e">>}

InitSearch ==
    /\ input \in [request : {Request(query, page, NoStr, NoList, NoNum) :
                                query \in SearchQueries, page \in {NoNum, 1, 2, 3}}]
    /\ output = << >>
    /\ LRUIdle
    /\ OrchIdle
    /\ budget = 0
    /\ tz = "utc"
    /\ NetIdle
    /\ ConcIdle
    /\ RateIdle

SearchApply(provider, outcome) ==
    /\ output = << >>
    /\ outcome \in SearchOutcomes(input.request)
    /\ output' = <<[provider |-> provider, outcome |-> outcome,
                    result |-> AdapterSearch(provider, input.request, outcome)]>>
    /\ UNCHANGED <<input, lruVars, orchVars, netVars, concVars, rateVars>>

NextSearch ==
    \E provider \in Range(getAllProviders), outcome \in FetchOutcomes \cup {"throws"} :
        SearchApply(provider, outcome)

SpecSearch == InitSearch /\ [][NextSearch]_vars

\* The items of a body that pass the schema, in the order of the body
RECURSIVE PassingItems(_)
PassingItems(items) ==
    IF Len(items) = 0 THEN << >>
    ELSE (IF items[1].wellFormed THEN <<items[1].rec>> ELSE << >>) \o PassingItems(Tail(items))

\* C33: the search of an adapter never fails: it returns the empty list when
\* the call fails as a whole, and for a successful call exactly the items that
\* pass the schema, in their order.
C33_AdapterSearchNeverFails ==
    \A k \in 1..Len(output) :
        /\ output[k].result.kind = "returns"
        /\ output[k].outcome \in {"HTTP_ERROR", "TIMEOUT", "NETWORK_ERROR"}
             => output[k].result.data = << >>
        /\ output[k].outcome = "ok"
             => output[k].result.data
                  = PassingItems(ServerResults(output[k].provider, PageOf(input.request)))

(***************************************************************************)
(* SpecFetch: one call of fetchJson, step by step, with the error it       *)
(* throws.  Time is counted in refill intervals.                           *)
(***************************************************************************)
\* const { timeoutMs = 10000 } = options; no caller passes another
DefaultTimeoutMs == 10000
TimeoutIntervals == DefaultTimeoutMs \div RefillInterval

\* new MangaApiError(code, provider, status, url, message)
MangaApiError(code, provider, status, url, message) ==
    [name |-> "MangaApiError", code |-> code, provider |-> provider, status |-> status,
     url |-> url, message |-> message]

\* An error that is not a MangaApiError: what fetch and response.json() reject with
OtherError(name, message) ==
    [name |-> name, code |-> "", provider |-> "", status |-> NoNum, url |-> NoStr,
     message |-> message]
NoError == OtherError("", "")

\* A catch block that wraps every error
Caught_WrapsAll(error, hostname, url) ==
    IF error.name = "AbortError"
    THEN MangaApiError("TIMEOUT", hostname, NoNum, url, "Request timeout")
    ELSE MangaApiError("NETWORK_ERROR", hostname, NoNum, url, error.message)

\* The catch block of fetchJson: what it throws for the error it caught
Caught(error, hostname, url) ==
    IF error.name = "MangaApiError" THEN error
    ELSE IF error.name = "AbortError"
    THEN MangaApiError("TIMEOUT", hostname, NoNum, url, "Request timeout")
    ELSE MangaApiError("NETWORK_ERROR", hostname, NoNum, url, error.message)

\* The URLs the adapters build, all on CONSUMET_BASE_URL
FetchUrls == {<<"/", "o", "n", "e">>, <<"/", "i", "n", "f", "o", "/", "1">>}

\* A call of fetchJson: where it stands, its network attempts, the intervals
\* since its timer was set, the error thrown, and what made it fail
FetchState(pc, attempts, waited, error, cause, status) ==
    [pc |-> pc, attempts |-> attempts, waited |-> waited, error |-> error,
     cause |-> cause, status |-> status]

\* The limiter is new, or earlier calls have left the bucket of the host
InitFetch ==
    /\ input \in [url : FetchUrls]
    /\ output = << >>
    /\ LRUIdle
    /\ OrchIdle
    /\ budget = 0
    /\ tz = "utc"
    /\ buckets \in {<< >>} \cup {MapSet(<< >>, Host, [tokens |-> t, elapsed |-> 0]) :
                                    t \in 0..maxTokens}
    /\ ConcIdle
    /\ RateIdle

FetchFrame == UNCHANGED <<input, lruVars, orchVars, concVars, rateVars>>

\* fetchJson from its start to the first await it waits at: throttle, then
\* setTimeout and fetch
FetchEntered(attempts, throttled) ==
    /\ buckets' = throttled.buckets
    /\ output' = <<FetchState(IF throttled.waits THEN "throttled" ELSE "fetching",
                              attempts, 0, NoError, "", NoNum)>>
    /\ FetchFrame

FetchCall ==
    /\ output = << >>
    /\ FetchEntered(1, Throttle(buckets, Host))

\* The wait of throttle is over
FetchResume ==
    /\ Len(output) = 1
    /\ output[1].pc = "throttled"
    /\ buckets' = MapSet(buckets, Host, [MapGet(buckets, Host) EXCEPT !.tokens = 1 - 1])
    /\ output' = <<[output[1] EXCEPT !.pc = "fetching"]>>
    /\ FetchFrame

\* The call throws what the catch block makes of the error
FetchThrows(error, cause, status) ==
    /\ output' = <<[output[1] EXCEPT !.pc = "thrown",
                                     !.error = Caught(error, Host, input.url),
                                     !.cause = cause,
                                     !.status = status]>>
    /\ UNCHANGED buckets
    /\ FetchFrame

\* fetch resolves with a response, the timer not having fired
FetchAnswered(status) ==
    /\ Len(output) = 1
    /\ output[1].pc = "fetching"
    /\ IF status \in 200..299
       THEN /\ output' = <<[output[1] EXCEPT !.pc = "body"]>>
            /\ UNCHANGED buckets
            /\ FetchFrame
       ELSE IF status = 429 \/ status = 503
       THEN /\ output' = <<[output[1] EXCEPT !.pc = "backoff"]>>
            /\ UNCHANGED buckets
            /\ FetchFrame
       ELSE FetchThrows(MangaApiError("HTTP_ERROR", Host, status, input.url, "HTTP"),
                        "status", status)

\* The timer fires after timeoutMs: controller.abort(), and fetch rejects
\* with the AbortError
FetchTimedOut ==
    /\ Len(output) = 1
    /\ output[1].pc = "fetching"
    /\ output[1].waited = TimeoutIntervals
    /\ FetchThrows(OtherError("AbortError", "aborted"), "timer", NoNum)

\* fetch rejects: no connection
FetchRejected ==
    /\ Len(output) = 1
    /\ output[1].pc = "fetching"
    /\ FetchThrows(OtherError("TypeError", "Failed to fetch"), "network", NoNum)

\* response.json() settles: with the data, or with a SyntaxError
FetchBody(parsable) ==
    /\ Len(output) = 1
    /\ output[1].pc = "body"
    /\ IF parsable
       THEN /\ output' = <<[output[1] EXCEPT !.pc = "returned"]>>
            /\ UNCHANGED buckets
            /\ FetchFrame
       ELSE FetchThrows(OtherError("SyntaxError", "Unexpected token"), "body", NoNum)

\* The delay after a 429 or 503 is over: return fetchJson(url, options)
FetchAgain ==
    /\ Len(output) = 1
    /\ output[1].pc = "backoff"
    /\ output[1].attempts < MaxAttempts
    /\ FetchEntered(output[1].attempts + 1, Throttle(buckets, Host))

\* One refill interval passes
FetchTick ==
    /\ Len(output) = 1
    /\ \/ output[1].pc = "fetching" /\ output[1].waited < TimeoutIntervals
       \/ output[1].pc \in {"throttled", "backoff"}
            /\ \E k \in 1..Len(buckets) : buckets[k].value.elapsed < maxTokens
    /\ output' = <<[output[1] EXCEPT
                      !.waited = IF output[1].pc = "fetching" THEN @ + 1 ELSE @]>>
    /\ buckets' = [k \in 1..Len(buckets) |->
                      [buckets[k] EXCEPT !.value.elapsed = Min(@ + 1, maxTokens)]]
    /\ FetchFrame

NextFetch ==
    \/ FetchCall
    \/ FetchResume
    \/ \E status \in Statuses : FetchAnswered(status)
    \/ FetchTimedOut
    \/ FetchRejected
    \/ \E parsable \in BOOLEAN : FetchBody(parsable)
    \/ FetchAgain
    \/ FetchTick

SpecFetch == InitFetch /\ [][NextFetch]_vars

\* C34: every failing fetchJson call reports one of three errors, with the
\* host and the URL: Timeout when no response arrived within timeoutMs
\* (10000 ms), HttpError with the status for a status that is neither 2xx nor
\* retried, NetworkError with the underlying message for a failure of the
\* network or of the body; an HttpError is not reported as another error.
C34_FetchErrorsClassified ==
    \A k \in 1..Len(output) :
        output[k].pc = "thrown" =>
            /\ output[k].error.name = "MangaApiError"
            /\ output[k].error.code \in {"TIMEOUT", "HTTP_ERROR", "NETWORK_ERROR"}
            /\ output[k].error.provider = Host
            /\ output[k].error.url = input.url
            /\ output[k].error.code = "TIMEOUT" <=> output[k].cause = "timer"
            /\ output[k].cause = "timer"
                 => output[k].waited * RefillInterval = 10000
            /\ output[k].error.code = "HTTP_ERROR" <=> output[k].cause = "status"
            /\ output[k].cause = "status"
                 => /\ output[k].error.status = output[k].status
                    /\ output[k].status \notin 200..299
                    /\ output[k].status \notin {429, 503}
            /\ output[k].error.code = "NETWORK_ERROR" <=> output[k].cause \in {"network", "body"}
            /\ output[k].cause = "network" => output[k].error.message = "Failed to fetch"

\* A call failed with HttpError 404 on its second attempt, after a retry
C34_Witness ==
    /\ Len(output) = 1
    /\ output[1].pc = "thrown"
    /\ output[1].attempts = 2
    /\ output[1].error.code = "HTTP_ERROR"
    /\ output[1].error.status = 404

(***************************************************************************)
(* SpecCalls: dedupeAndMerge called several times.  The Manga objects it   *)
(* makes live in a heap, an object being its index; what a call returns is *)
(* the list of the objects of its allManga.                                *)
(***************************************************************************)
\* An allManga that is kept from one call to the next
NewAllManga_Kept(previous) == previous

\* const allManga: Manga[] = [] at the start of a call, previous being the
\* list the call before ended with
NewAllManga(previous) == << >>

\* The objects of a list, as they are in the heap
Deref(heap, refs) == [i \in 1..Len(refs) |-> heap[refs[i]]]

\* The heap after a call that found the objects refs of its allManga as
\* merged[1..Len(refs)] and pushed the others as new objects
HeapAfter(heap, refs, merged) ==
    [a \in 1..Len(heap) |->
        IF \E i \in 1..Len(refs) : refs[i] = a
        THEN merged[CHOOSE i \in 1..Len(refs) : refs[i] = a]
        ELSE heap[a]]
      \o SubSeq(merged, Len(refs) + 1, Len(merged))

\* The list a call returns: the objects it started with and the new ones
RefsAfter(heap, refs, merged) ==
    refs \o [i \in 1..(Len(merged) - Len(refs)) |-> Len(heap) + i]

GroupOf(provider, data) == [data |-> data, provider |-> provider]

\* The inputs of the calls
GroupLists ==
    { << GroupOf(mangadex, <<RecordA>>), GroupOf(comick, <<RecordB, RecordC>>) >>,
      << GroupOf(comick, <<RecordB>>) >>,
      << GroupOf(mangasee123, <<RecordD>>), GroupOf(mangadex, <<RecordA>>) >>,
      << GroupOf(comick, <<RecordC>>) >>,
      << >> }

MaxMergeCalls == 3

InitCalls ==
    /\ input = << >>
    /\ output = [heap |-> << >>, calls |-> << >>]
    /\ LRUIdle
    /\ OrchIdle
    /\ budget = 0
    /\ tz = "utc"
    /\ NetIdle
    /\ ConcIdle
    /\ RateIdle

\* dedupeAndMerge(results), starting from the list start and ending with the
\* entries merged
MergeCallWith(results, start, merged) ==
    /\ input' = Append(input, results)
    /\ output' =
          [heap |-> HeapAfter(output.heap, start, merged),
           calls |-> Append(output.calls,
                            [given |-> results,
                             result |-> RefsAfter(output.heap, start, merged),
                             returned |-> merged])]
    /\ UNCHANGED <<lruVars, orchVars, netVars, concVars, rateVars>>

MergeCallFrom(results, start) ==
    MergeCallWith(results, start, MergeGroups(Deref(output.heap, start), results, tz))

MergeCall(results) ==
    /\ Len(output.calls) < MaxMergeCalls
    /\ MergeCallFrom(results,
                     NewAllManga(IF Len(output.calls) = 0 THEN << >>
                                 ELSE output.calls[Len(output.calls)].result))

NextCalls == \E results \in GroupLists : MergeCall(results)

SpecCalls == InitCalls /\ [][NextCalls]_vars

\* C35: dedupeAndMerge keeps no state between calls and does not change what
\* it was given or what an earlier call returned: the entries a call returned
\* are afterwards what they were when it returned, whatever calls follow; two
\* calls with equal input return equal output, the one of a single call on
\* that input; and no object is in the lists of two calls.
C35_MergeKeepsNoState ==
    \A c \in 1..Len(output.calls) :
        /\ Deref(output.heap, output.calls[c].result) = output.calls[c].returned
        /\ output.calls[c].returned = dedupeAndMerge(output.calls[c].given, tz)
        /\ input[c] = output.calls[c].given
        /\ \A d \in 1..Len(output.calls) :
              /\ output.calls[d].given = output.calls[c].given
                   => output.calls[d].returned = output.calls[c].returned
              /\ d # c => Range(output.calls[d].result) \cap Range(output.calls[c].result) = {}

\* The same input was merged twice, with another call in between that would
\* have merged into the entries of the first
C35_Witness ==
    /\ Len(output.calls) = 3
    /\ output.calls[1].given = output.calls[3].given
    /\ Len(output.calls[1].returned) = 2
    /\ output.calls[2].given = << GroupOf(comick, <<RecordB>>) >>
    /\ Len(output.calls[1].returned[1].sources) = 2
    /\ Len(output.heap) = 5

\* C36: every entry of the output of dedupeAndMerge has the id
\* provider + ':' + providerId, also after a merge that promoted a source of
\* higher priority to representative.
C36_IdNamesRepresentative ==
    \A m \in 1..Len(output.allManga) :
        output.allManga[m].id
          = output.allManga[m].provider \o <<":">> \o output.allManga[m].providerId

(***************************************************************************)
(* SpecSeries: getChapters calls for series of the registered adapters,    *)
(* each from its cache check to its await and from there to its end, over  *)
(* the chapters cache.                                                     *)
(***************************************************************************)
FailedTransport == {"HTTP_ERROR", "TIMEOUT", "NETWORK_ERROR"}

\* What happens to fetchJson of /info/<seriesId>: an answer with chapters, an
\* answer without, or a MangaApiError
SeriesOutcomes == {"ok", "none"} \cup FailedTransport

\* response.chapters || []
SeriesAnswer(outcome) ==
    IF outcome = "ok"
    THEN <<RawChapter(<<"b">>, ChapterNumber(NoNum, <<"2">>)),
           RawChapter(<<"a">>, ChapterNumber(NoNum, <<"1">>))>>
    ELSE << >>

\* provider.chapters(seriesId, opts): the validated chapters sorted, and [] from
\* the catch when the fetch failed
ProviderChapters(outcome, order) ==
    IF outcome \in FailedTransport THEN << >>
    ELSE StableSort(validatedChapters(SeriesAnswer(outcome)), order)

\* "Convert to normalized format"
ToChapter(parsed, globalSeriesId, chapter) ==
    [id |-> parsed.providerId \o <<":">> \o chapter.id,
     seriesId |-> globalSeriesId,
     chapterNumber |-> OrElseStr(NumberText(chapter.chapterNumber), <<"0">>),
     provider |-> parsed.providerId,
     providerId |-> chapter.id]

\* The chapters getChapters stores and returns
NormalizedChapters(parsed, globalSeriesId, providerChapters) ==
    [c \in 1..Len(providerChapters) |-> ToChapter(parsed, globalSeriesId, providerChapters[c])]

MaxSeriesCalls == 3

SeriesIds == {GlobalId(mangadex, 1), GlobalId(comick, 2)}

InitSeries ==
    /\ ConcIdle
    /\ LRUIdle
    /\ OrchIdle
    /\ budget = 0
    /\ tz = "utc"
    /\ NetIdle
    /\ RateIdle
    /\ PureIdle

SeriesFrame ==
    UNCHANGED <<searchCache, detailsCache, recency, phase, req, target, calls, response,
                budget, hist, tz, stored, lruVars, netVars, rateVars, pureVars>>

\* getChapters(globalSeriesId) up to its await: "Check cache first"; a cached
\* list is truthy also when it is empty
SeriesBegin(globalSeriesId) ==
    /\ Len(tasks) < MaxSeriesCalls
    /\ chaptersCache' = LRUGetMap(chaptersCache, ChaptersKey(globalSeriesId, NoStr, NoStr))
    /\ tasks' = Append(tasks,
          IF LRUGetValue(chaptersCache, ChaptersKey(globalSeriesId, NoStr, NoStr)) # NoValue
          THEN [id |-> globalSeriesId, key |-> ChaptersKey(globalSeriesId, NoStr, NoStr),
                pc |-> "hit", outcome |-> "",
                value |-> LRUGetValue(chaptersCache, ChaptersKey(globalSeriesId, NoStr, NoStr))]
          ELSE [id |-> globalSeriesId, key |-> ChaptersKey(globalSeriesId, NoStr, NoStr),
                pc |-> "await", outcome |-> "", value |-> NoValue])
    /\ SeriesFrame

\* getChapters from its await on: "Cache the result" and return it
SeriesEndWith(i, outcome, chapters) ==
    /\ tasks' = [tasks EXCEPT ![i] = [@ EXCEPT !.pc = "done", !.outcome = outcome,
                                               !.value = chapters]]
    /\ chaptersCache' = LRUSet(chaptersCache, chaptersCacheMax, tasks[i].key, chapters)
    /\ SeriesFrame

SeriesEnd(i, outcome) ==
    /\ i \in 1..Len(tasks)
    /\ tasks[i].pc = "await"
    /\ SeriesEndWith(i, outcome,
                     NormalizedChapters(ParsedId(tasks[i].id), tasks[i].id,
                                        ProviderChapters(outcome, "asc")))

NextSeries ==
    \/ \E globalSeriesId \in SeriesIds : SeriesBegin(globalSeriesId)
    \/ \E i \in 1..MaxSeriesCalls, outcome \in SeriesOutcomes : SeriesEnd(i, outcome)

SpecSeries == InitSeries /\ [][NextSeries]_vars

\* Call i ends in this step
SeriesEnds(i) == i <= Len(tasks) /\ tasks[i].pc = "await" /\ tasks'[i].pc = "done"

\* Call i begins in this step, after a call for the same key returned from a
\* failed fetch and no call for that key has ended with an answer
BeginsAfterFailure(i) ==
    /\ Len(tasks) = i - 1
    /\ Len(tasks') = i
    /\ \E j \in 1..(i - 1) :
          /\ tasks[j].key = tasks'[i].key
          /\ tasks[j].pc = "done"
          /\ tasks[j].outcome \in FailedTransport
    /\ \A j \in 1..(i - 1) :
          tasks[j].key = tasks'[i].key => tasks[j].outcome \notin {"ok", "none"}

\* C37: a getChapters call whose fetch failed returns the empty list and
\* leaves the chapters cache as it was, and a later identical call goes to the
\* provider again instead of returning a cached empty list.
C37_FailedChaptersNotCached ==
    [][ \A i \in 1..MaxSeriesCalls :
          /\ (SeriesEnds(i) /\ tasks'[i].outcome \in FailedTransport)
                => /\ tasks'[i].value = << >>
                   /\ chaptersCache' = chaptersCache
          /\ BeginsAfterFailure(i) => tasks'[i].pc = "await" ]_vars

(***************************************************************************)
(* SpecAuthors: dedupeAndMerge, one record per step, on records that carry *)
(* authors and a release date.                                             *)
(***************************************************************************)
Oda == <<"O","d","a">>
Kubo == <<"K","u","b","o">>

\* A record with its authors and the year of its release date
Authored(id, title, author, year) ==
    [Rec(id, title) EXCEPT !.authors = <<author>>, !.releaseDate = DateOf(year)]

AuthorInputs ==
    { Returned(mangadex, Authored(<<"1">>, OnePiece, Oda, 1997)),
      Returned(comick, Authored(<<"2">>, Bleach, Oda, 1998)),
      Returned(comick, Authored(<<"3">>, Bleach, Kubo, 2001)),
      Returned(mangasee123, Rec(<<"4">>, OnePiece)),
      Returned(mangasee123, Rec(<<"5">>, Bleach)) }

NextAuthors == \E in \in AuthorInputs : MergeStep(in.provider, in.result)

SpecAuthors == InitMerge /\ [][NextAuthors]_vars

\* jaroWinkler of the normalized titles of a record and an entry
TitleSimilarity(result, existing) ==
    jaroWinkler(normalizeTitle(result.title), normalizeTitle(existing.title))

InResponseData(provider, result) ==
    \E m \in 1..Len(response.data) :
       \E k \in 1..Len(response.data[m].sources) :
          /\ response.data[m].sources[k].provider = provider
          /\ response.data[m].sources[k].id = result.id

\* C39: searchMangaMulti applies the requested page once: for a page from 2
\* on, every record the selected providers returned for the request is in the
\* data of the response whenever the merged list has at most limit entries.
C39_PageAppliedOnce ==
    (RespondedMiss /\ PageOf(req) >= 2 /\ Len(hist.merged) <= LimitOf(req))
       => \A i \in 1..Len(calls) :
             \A k \in 1..Len(calls[i].data) :
                InResponseData(calls[i].provider, calls[i].data[k])

(***************************************************************************)
(* SpecLibrary: addToLibrary calls on the persistent store, each from its  *)
(* call to the end of getLibrary and from there to the end of saveLibrary. *)
(* output.library is the value stored under the key 'library', tasks are   *)
(* the calls.  addedAt, which no step reads, is left out of the entries.   *)
(***************************************************************************)
LibrarySeries(seriesId, source) == [seriesId |-> seriesId, source |-> source]

SeriesToAdd ==
    {LibrarySeries(<<"1">>, "jikan"), LibrarySeries(<<"2">>, "jikan"),
     LibrarySeries(<<"1">>, "consumet")}

MaxAdds == 3

InitLibrary ==
    /\ input = << >>
    /\ output \in {[library |-> << >>], [library |-> <<LibrarySeries(<<"2">>, "jikan")>>]}
    /\ tasks = << >>
    /\ detailsCache = << >>
    /\ chaptersCache = << >>
    /\ recency = << >>
    /\ LRUIdle
    /\ OrchIdle
    /\ budget = 0
    /\ tz = "utc"
    /\ NetIdle
    /\ RateIdle

LibraryFrame ==
    UNCHANGED <<input, detailsCache, chaptersCache, recency, lruVars, orchVars, netVars,
                rateVars>>

\* library.find(s => s.seriesId === series.seriesId && s.source === series.source)
Exists(library, series) ==
    \E k \in 1..Len(library) :
        library[k].seriesId = series.seriesId /\ library[k].source = series.source

\* addToLibrary(series) up to the await of getLibrary
AddCall(series) ==
    /\ Len(tasks) < MaxAdds
    /\ tasks' = Append(tasks, [series |-> series, pc |-> "getLibrary", library |-> << >>,
                               failed |-> FALSE])
    /\ UNCHANGED output
    /\ LibraryFrame

\* getLibrary: what getItem resolves to, [] for nothing stored and from the
\* catch when it rejects
getLibrary(ok) == IF ok THEN output.library ELSE << >>

\* addToLibrary from the end of getLibrary to the await of saveLibrary, library
\* being what getLibrary returned
AddRead(i, ok, library) ==
    /\ tasks' = [tasks EXCEPT ![i] =
                   IF Exists(library, tasks[i].series)
                   THEN [@ EXCEPT !.pc = "done", !.library = library, !.failed = ~ok]
                   ELSE [@ EXCEPT !.pc = "saveLibrary", !.failed = ~ok,
                                  !.library = Append(library, tasks[i].series)]]
    /\ UNCHANGED output
    /\ LibraryFrame

AddGot(i, ok) ==
    /\ i \in 1..Len(tasks)
    /\ tasks[i].pc = "getLibrary"
    /\ AddRead(i, ok, getLibrary(ok))

\* saveLibrary: setItem stores the list of the call, or rejects and the call
\* throws
AddSaved(i, ok) ==
    /\ i \in 1..Len(tasks)
    /\ tasks[i].pc = "saveLibrary"
    /\ output' = IF ok THEN [library |-> tasks[i].library] ELSE output
    /\ tasks' = [tasks EXCEPT ![i] = [@ EXCEPT !.pc = IF ok THEN "done" ELSE "threw",
                                               !.failed = @ \/ ~ok]]
    /\ LibraryFrame

NextLibrary ==
    \/ \E series \in SeriesToAdd : AddCall(series)
    \/ \E i \in 1..MaxAdds, ok \in BOOLEAN : AddGot(i, ok)
    \/ \E i \in 1..MaxAdds, ok \in BOOLEAN : AddSaved(i, ok)

SpecLibrary == InitLibrary /\ [][NextLibrary]_vars

\* The calls made are for distinct series, all have ended and the store
\* failed none of them
DistinctAddsDone ==
    /\ Len(tasks) > 0
    /\ \A i \in 1..Len(tasks) : tasks[i].pc = "done" /\ ~tasks[i].failed
    /\ \A i, j \in 1..Len(tasks) : tasks[i].series = tasks[j].series => i = j

\* C40: after any interleaving of concurrent addToLibrary calls for distinct
\* series every added series is in the stored library, and the stored library
\* never holds two entries of the same seriesId and source.
C40_ConcurrentAddsAllStored ==
    /\ DistinctAddsDone => \A i \in 1..Len(tasks) : Exists(output.library, tasks[i].series)
    /\ \A k, l \in 1..Len(output.library) :
          (/\ output.library[k].seriesId = output.library[l].seriesId
           /\ output.library[k].source = output.library[l].source) => k = l

====
